---- MODULE Spec2Model ----
(***************************************************************************)
(* DNS reconciliation engine of stevedore-dyndns: the domain scope         *)
(* validator, the name mapper, the retry combinator and the record store   *)
(* client, modelled from the Go sources.                                   *)
(*                                                                         *)
(* A Go string is a sequence of one-character strings, so that ToLower,    *)
(* TrimSuffix, HasSuffix and SplitN are computed character by character.   *)
(***************************************************************************)
EXTENDS Integers, Sequences, FiniteSets, TLC

VARIABLES
    \* config.Config / cloudflare.Client
    domain,           \* cfg.Domain, Client.domain
    subdomainPrefix,  \* cfg.SubdomainPrefix
    baseDomain,       \* Client.baseDomain, set by New from cfg.GetBaseDomain()
    ttl,              \* cfg.DNSTTL, Client.ttl, in seconds (0: no client)
    \* the last call of a pure function of the client or the configuration
    op,               \* "none" | "validate" | "managed" | "fqdn"
    arg,              \* the string passed
    ret,              \* what the call returned
    \* one call of withRetry
    maxRetries,       \* cfRetryConfig.maxRetries
    rpc,              \* "off" | "call" (about to invoke fn) | "sleep" | "done"
    attempt,          \* the loop variable of withRetry
    ctxErr,           \* ctx.Err(): "nil" | "canceled" | "deadline"
    ctxAtCall,        \* ctx.Err() when withRetry was called
    outcomes,         \* what each invocation of fn returned, in order
    invocations,      \* how often fn was invoked
    sleeps,           \* how often cfRetrySleep was called
    result,           \* the value withRetry returned
    err,              \* the error withRetry returned
    \* the record store: the provider's zone and the client's ID cache
    zone,             \* the DNS records at the provider
    nextID,           \* the ID the provider gives the next record it creates
    recordCache,      \* Client.recordCache: cache key -> record ID
    calls,            \* the provider calls made by the operation in progress
    listed,           \* the names the last managed-record listing returned
    \* one run of the service: its reconciliation passes (main.go)
    proxied,          \* cfg.CloudflareProxy, Client.proxied
    pc,               \* "off" | "idle" | "update" | "list" | "delete" | "done"
    passes,           \* how many passes were started
    desired,          \* caddyGen.GetActiveSubdomains() of the pass
    ipv4,             \* the IPv4 address detector.Detect returned, or ""
    ipv6,             \* the IPv6 address detector.Detect returned, or ""
    todo,             \* the client calls of the current loop still to make
    issued,           \* the client calls the pass has made, in order
    faulty,           \* whether a provider call of the pass failed
    zoneAtStart,      \* the zone when the pass started
    published,        \* the services earlier passes wrote a record for
    \* goroutines that call one client at the same time
    cacheMu,          \* Client.cacheMu: who holds the read lock, the write lock
    goroutine,        \* each goroutine's position in UpdateRecord/DeleteRecord
    access,           \* the last access of recordCache and the lock held for it
    \* the goroutines of main (main.go)
    useDiscovery,     \* cfg.UseDiscovery(): discovery mode, else a mappings file
    thread,           \* the position of each goroutine
    inPass,           \* the goroutines inside updateIPAndDNS
    ingress,          \* the ingress services at stevedore (or in the file)
    unreported,       \* whether they changed since the last poll (or file event)
    discovered,       \* Generator.discoveredServices (or Manager.mappings)
    generated,        \* the services of the last generated configuration
    event,            \* the last poll answer or file event the program handled
    passSet,          \* GetActiveSubdomains() as the last pass read it
    passCause,        \* what started the last pass: "initial" | "ticker" | ...
    tick,             \* whether ticker.C holds a tick
    changes           \* how often the ingress services changed

configVars == <<domain, subdomainPrefix, baseDomain, ttl>>
callVars == <<op, arg, ret>>
retryVars == <<maxRetries, rpc, attempt, ctxErr, ctxAtCall, outcomes,
               invocations, sleeps, result, err>>
storeVars == <<zone, nextID, recordCache>>
passVars == <<proxied, pc, passes, desired, ipv4, ipv6, todo, issued, faulty,
              zoneAtStart, published>>
lockVars == <<cacheMu, goroutine, access>>
mainVars == <<useDiscovery, thread, inPass, ingress, unreported, discovered,
              generated, event, passSet, passCause, tick, changes>>
threadVars == <<lockVars, mainVars>>
vars == <<configVars, callVars, retryVars, storeVars, calls, listed, passVars,
          threadVars>>

(***************************************************************************)
(* Bounds of the model.                                                    *)
(***************************************************************************)
MaxNameLen == 4
MaxDomainLen == 3
MaxServiceLen == 2
MaxRetriesBound == 3
MaxCreated == 1
MaxPasses == 2
MaxAttempt == 66
MaxChanges == 2

(***************************************************************************)
(* Strings.                                                                *)
(***************************************************************************)
NameAlphabet == {"a", "A", ".", "-"}
DomainAlphabet == {"a", "A", "."}
ServiceAlphabet == {"a", "A", ".", "-"}

StringsUpTo(alphabet, n) == UNION {[1..k -> alphabet] : k \in 0..n}

Names == StringsUpTo(NameAlphabet, MaxNameLen)
Domains == StringsUpTo(DomainAlphabet, MaxDomainLen)
Services == StringsUpTo(ServiceAlphabet, MaxServiceLen)

\* the record store: the zone z.p, and the names, types and addresses passed
ClientDomains == {<<"z", ".", "p">>}
NameService == <<"s", ".", "z", ".", "p">>
NameServiceUpper == <<"S", ".", "z", ".", "p">>
NamePrefixed == <<"s", "-", "z", ".", "p">>
NameForeign == <<"x">>
NameApex == <<"z", ".", "p">>
NameWildcard == <<"*", ".", "z", ".", "p">>
ClientNames == {NameService, NameServiceUpper, NamePrefixed, NameForeign}
RecordTypes == {"A", "AAAA"}
Contents == {"192.0.2.1", "192.0.2.2"}

\* records the zone may hold before the client runs
InitialRecords ==
    {[id |-> 1, name |-> NameForeign, type |-> "A", content |-> "192.0.2.2"],
     [id |-> 2, name |-> NamePrefixed, type |-> "A", content |-> "192.0.2.2"],
     [id |-> 3, name |-> NameService, type |-> "A", content |-> "192.0.2.2"],
     [id |-> 4, name |-> NameApex, type |-> "AAAA", content |-> "192.0.2.2"],
     [id |-> 5, name |-> NameWildcard, type |-> "A", content |-> "192.0.2.2"]}

\* the zone before the client runs
InitialZones == {{}, InitialRecords}

\* reconciliation: the services that can be active, the addresses detected,
\* and the records of others the zone may hold when the service starts
ServiceLabels == {<<"s">>, <<"S">>, <<"t">>}
DetectedIPv4 == {"", "192.0.2.1"}
DetectedIPv6 == {"", "2001:db8::1"}
NameSibling == <<"x", ".", "p">>
ForeignRecords ==
    {[id |-> 101, name |-> NameForeign, type |-> "A", content |-> "192.0.2.2"],
     [id |-> 102, name |-> NameSibling, type |-> "A", content |-> "192.0.2.2"],
     [id |-> 103, name |-> NameApex, type |-> "A", content |-> "192.0.2.2"],
     [id |-> 104, name |-> NameWildcard, type |-> "A", content |-> "192.0.2.2"]}

\* names of the shapes TestIsManagedRecord passes for the zone a.a: a service
\* in prefix form, the same re-cased, a nested label before the suffix, and
\* another zone label
ManagedTestNames ==
    {<<"a", "-", "a", ".", "a">>,
     <<"A", "-", "a", ".", "A">>,
     <<"a", ".", "a", "-", "a", ".", "a">>,
     <<"a", "-", "a", "a", ".", "a">>}

Dot == <<".">>
Dash == <<"-">>

\* unicode.ToLower on the characters of the alphabets
LowerChar(c) == IF c = "A" THEN "a" ELSE IF c = "S" THEN "s" ELSE c

\* strings.ToLower
ToLower(s) == [i \in 1..Len(s) |-> LowerChar(s[i])]

\* strings.HasSuffix
HasSuffix(s, suffix) ==
    /\ Len(s) >= Len(suffix)
    /\ SubSeq(s, Len(s) - Len(suffix) + 1, Len(s)) = suffix

\* strings.HasPrefix
HasPrefix(s, prefix) ==
    /\ Len(s) >= Len(prefix)
    /\ SubSeq(s, 1, Len(prefix)) = prefix

\* strings.TrimSuffix: s without the suffix when it ends with it, else s
TrimSuffix(s, suffix) ==
    IF HasSuffix(s, suffix) THEN SubSeq(s, 1, Len(s) - Len(suffix)) ELSE s

\* strings.Contains(s, "."), for a one-character substring
ContainsChar(s, c) == \E i \in 1..Len(s) : s[i] = c

\* strings.SplitN(s, ".", 2): one part when s has no dot, else the part before
\* the first dot and the rest
SplitN2(s) ==
    IF ContainsChar(s, ".")
    THEN LET i == CHOOSE j \in 1..Len(s) :
                    /\ s[j] = "."
                    /\ \A k \in 1..(j - 1) : s[k] # "."
         IN  <<SubSeq(s, 1, i - 1), SubSeq(s, i + 1, Len(s))>>
    ELSE <<s>>

(***************************************************************************)
(* config.Config                                                           *)
(***************************************************************************)
\* GetSubdomainFQDN with the separator of direct mode in the single-label
\* fallback
GetSubdomainFQDN_DotFallback(cfgDomain, cfgPrefix, subdomain) ==
    IF cfgPrefix
    THEN LET parts == SplitN2(cfgDomain)
         IN  IF Len(parts) = 2
             THEN subdomain \o Dash \o parts[1] \o Dot \o parts[2]
             ELSE subdomain \o Dot \o cfgDomain
    ELSE subdomain \o Dot \o cfgDomain

\* Config.GetSubdomainFQDN
GetSubdomainFQDN(cfgDomain, cfgPrefix, subdomain) ==
    IF cfgPrefix
    THEN LET parts == SplitN2(cfgDomain)
         IN  IF Len(parts) = 2
             THEN subdomain \o Dash \o parts[1] \o Dot \o parts[2]
             ELSE subdomain \o Dash \o cfgDomain
    ELSE subdomain \o Dot \o cfgDomain

\* Config.GetBaseDomain
GetBaseDomain(cfgDomain, cfgPrefix) ==
    IF cfgPrefix
    THEN LET parts == SplitN2(cfgDomain)
         IN  IF Len(parts) = 2 THEN parts[2] ELSE cfgDomain
    ELSE cfgDomain

(***************************************************************************)
(* cloudflare.Client: the pure predicates                                  *)
(***************************************************************************)
\* validateRecordName matching the domain as a raw string suffix, without the
\* dot in front of it
validateRecordName_RawSuffix(cDomain, cBaseDomain, name) ==
    LET normalizedName == ToLower(TrimSuffix(name, Dot))
        normalizedDomain == ToLower(TrimSuffix(cDomain, Dot))
        normalizedBaseDomain == ToLower(TrimSuffix(cBaseDomain, Dot))
    IN  IF HasSuffix(normalizedName, normalizedDomain)
        THEN "nil"
        ELSE IF /\ normalizedBaseDomain # <<>>
                /\ normalizedBaseDomain # normalizedDomain
                /\ HasSuffix(normalizedName, normalizedBaseDomain)
             THEN "nil"
             ELSE "SECURITY"

\* validateRecordName without the base-domain scope of prefix mode
validateRecordName_RootOnly(cDomain, cBaseDomain, name) ==
    LET normalizedName == ToLower(TrimSuffix(name, Dot))
        normalizedDomain == ToLower(TrimSuffix(cDomain, Dot))
    IN  IF \/ normalizedName = normalizedDomain
           \/ HasSuffix(normalizedName, Dot \o normalizedDomain)
        THEN "nil"
        ELSE "SECURITY"

\* validateRecordName comparing the name as given, without lower-casing it
validateRecordName_CaseSensitive(cDomain, cBaseDomain, name) ==
    LET normalizedName == TrimSuffix(name, Dot)
        normalizedDomain == ToLower(TrimSuffix(cDomain, Dot))
        normalizedBaseDomain == ToLower(TrimSuffix(cBaseDomain, Dot))
    IN  IF \/ normalizedName = normalizedDomain
           \/ HasSuffix(normalizedName, Dot \o normalizedDomain)
        THEN "nil"
        ELSE IF /\ normalizedBaseDomain # <<>>
                /\ normalizedBaseDomain # normalizedDomain
                /\ \/ normalizedName = normalizedBaseDomain
                   \/ HasSuffix(normalizedName, Dot \o normalizedBaseDomain)
             THEN "nil"
             ELSE "SECURITY"

\* Client.validateRecordName: "nil" when the name is in scope, else the
\* "SECURITY" error
validateRecordName(cDomain, cBaseDomain, name) ==
    LET normalizedName == ToLower(TrimSuffix(name, Dot))
        normalizedDomain == ToLower(TrimSuffix(cDomain, Dot))
        normalizedBaseDomain == ToLower(TrimSuffix(cBaseDomain, Dot))
    IN  IF \/ normalizedName = normalizedDomain
           \/ HasSuffix(normalizedName, Dot \o normalizedDomain)
        THEN "nil"
        ELSE IF /\ normalizedBaseDomain # <<>>
                /\ normalizedBaseDomain # normalizedDomain
                /\ \/ normalizedName = normalizedBaseDomain
                   \/ HasSuffix(normalizedName, Dot \o normalizedBaseDomain)
             THEN "nil"
             ELSE "SECURITY"

\* IsManagedRecord without the check that the part before the suffix has no dot
IsManagedRecord_NestedPrefix(cDomain, cBaseDomain, name) ==
    LET fqdn == ToLower(TrimSuffix(name, Dot))
        dom == ToLower(TrimSuffix(cDomain, Dot))
        base == ToLower(TrimSuffix(cBaseDomain, Dot))
        zonePart == SplitN2(dom)[1]
        suffix == Dash \o zonePart \o Dot \o base
        prefix == TrimSuffix(fqdn, suffix)
    IN  IF fqdn = dom \/ fqdn = base
        THEN FALSE
        ELSE IF HasSuffix(fqdn, Dot \o dom)
             THEN TRUE
             ELSE /\ base # <<>>
                  /\ base # dom
                  /\ HasSuffix(fqdn, suffix)
                  /\ prefix # <<>>

\* Client.IsManagedRecord
IsManagedRecord(cDomain, cBaseDomain, name) ==
    LET fqdn == ToLower(TrimSuffix(name, Dot))
        dom == ToLower(TrimSuffix(cDomain, Dot))
        base == ToLower(TrimSuffix(cBaseDomain, Dot))
        zonePart == SplitN2(dom)[1]
        suffix == Dash \o zonePart \o Dot \o base
        prefix == TrimSuffix(fqdn, suffix)
    IN  IF fqdn = dom \/ fqdn = base
        THEN FALSE
        ELSE IF HasSuffix(fqdn, Dot \o dom)
             THEN TRUE
             ELSE /\ base # <<>>
                  /\ base # dom
                  /\ HasSuffix(fqdn, suffix)
                  /\ prefix # <<>>
                  /\ ~ContainsChar(prefix, ".")

(***************************************************************************)
(* Retry combinator (retry.go).                                            *)
(*                                                                         *)
(* An error is a record [kind, from]: from is the number of the invocation *)
(* of fn that returned it, 0 for an error that comes from ctx.Err().       *)
(* The value fn returns on its n-th invocation is n; the zero value is 0.  *)
(***************************************************************************)
Nil == [kind |-> "nil", from |-> 0]

\* the errors fn can return: a transport timeout (a net.Error whose Timeout()
\* is true), another net.Error, an API error, and errors that are or wrap
\* context.Canceled or context.DeadlineExceeded
ErrKinds == {"timeout", "neterror", "permanent", "canceled", "deadline"}

\* errors.Is(err, context.Canceled) || errors.Is(err, context.DeadlineExceeded)
IsContextError(e) == e.kind \in {"canceled", "deadline"}

\* errors.As(err, &netErr): context.DeadlineExceeded has Timeout() and
\* Temporary() and so is a net.Error too
AsNetError(e) == e.kind \in {"timeout", "neterror", "deadline"}

\* netErr.Timeout()
Timeout(e) == e.kind \in {"timeout", "deadline"}

\* isRetryableError retrying after every error
isRetryableError_AnyError(e) == e # Nil

\* isRetryableError taking a net.Error that is no timeout for the retryable one
isRetryableError_NotTimeout(e) ==
    IF e = Nil
    THEN FALSE
    ELSE IF IsContextError(e)
         THEN FALSE
         ELSE IF AsNetError(e) THEN ~Timeout(e) ELSE FALSE

\* isRetryableError asking the net.Error for Timeout() before it looks for a
\* context error
isRetryableError_TimeoutFirst(e) ==
    IF e = Nil
    THEN FALSE
    ELSE IF AsNetError(e) THEN Timeout(e) ELSE FALSE

\* isRetryableError
isRetryableError(e) ==
    IF e = Nil
    THEN FALSE
    ELSE IF IsContextError(e)
         THEN FALSE
         ELSE IF AsNetError(e) THEN Timeout(e) ELSE FALSE

\* withRetry returning the error of its first attempt
ReturnedError_FirstError(e, first) == first

\* withRetry, return zero, err (retry.go:36): err was assigned from the
\* invocation of this iteration (retry.go:31), whatever the first invocation
\* returned
ReturnedError(e, first) == e

\* withRetry giving up one attempt too late
RetryGivesUp_OffByOne(e, a, m) == ~isRetryableError(e) \/ a = m + 1

\* withRetry: the error is returned, without a further attempt
RetryGivesUp(e, a, m) == ~isRetryableError(e) \/ a = m

\* a sleep that ends early only when the deadline expires, not on a cancel
sleepWithContext_DeadlineOnly(c) == IF c = "deadline" THEN c ELSE "nil"

\* a sleep that does not look at the context
sleepWithContext_IgnoresContext(c) == "nil"

\* sleepWithContext with a positive delay: ctx.Err() when the context is done
\* before the timer fires, else nil
sleepWithContext(c) == c

\* no record store in this specification
StoreOff ==
    /\ zone = {}
    /\ nextID = 1
    /\ recordCache = <<>>
    /\ calls = <<>>
    /\ listed = {}

\* no event handled yet
NoEvent ==
    [seen |-> FALSE, err |-> FALSE, changed |-> FALSE, payload |-> FALSE,
     applied |-> FALSE, services |-> {}, before |-> {}, current |-> {}]

\* the goroutines of main are not part of this specification
MainOff ==
    /\ useDiscovery = FALSE
    /\ thread = <<>>
    /\ inPass = {}
    /\ ingress = {}
    /\ unreported = FALSE
    /\ discovered = {}
    /\ generated = {}
    /\ event = NoEvent
    /\ passSet = {}
    /\ passCause = "none"
    /\ tick = FALSE
    /\ changes = 0

\* no goroutines share the client
LockOff ==
    /\ cacheMu = [readers |-> {}, writer |-> "none"]
    /\ goroutine = <<>>
    /\ access = [by |-> "none", kind |-> "none", held |-> "none"]

\* no goroutines in this specification: the calls run one after another
ThreadsOff == LockOff /\ MainOff

\* no reconciliation pass in this specification
PassOff ==
    /\ proxied = FALSE
    /\ pc = "off"
    /\ passes = 0
    /\ desired = {}
    /\ ipv4 = ""
    /\ ipv6 = ""
    /\ todo = <<>>
    /\ issued = <<>>
    /\ faulty = FALSE
    /\ zoneAtStart = {}
    /\ published = {}

\* no call of withRetry in progress
RetryOff ==
    /\ maxRetries = 0
    /\ rpc = "off"
    /\ attempt = 0
    /\ ctxErr = "nil"
    /\ ctxAtCall = "nil"
    /\ outcomes = <<>>
    /\ invocations = 0
    /\ sleeps = 0
    /\ result = 0
    /\ err = Nil

\* withRetry, one iteration of the loop up to its return or its call of
\* cfRetrySleep: fn is invoked and returns a value or one of the errors
RetryAttempt ==
    /\ rpc = "call"
    /\ attempt <= maxRetries
    /\ \E outcome \in {"ok"} \cup ErrKinds :
        LET n == invocations + 1
            e == IF outcome = "ok" THEN Nil ELSE [kind |-> outcome, from |-> n]
            first == IF outcomes = <<>> THEN e
                     ELSE [kind |-> outcomes[1], from |-> 1]
        IN  /\ invocations' = n
            /\ outcomes' = Append(outcomes, outcome)
            /\ IF e = Nil
               THEN /\ rpc' = "done"
                    /\ result' = n
                    /\ err' = Nil
                    /\ sleeps' = sleeps
               ELSE IF RetryGivesUp(e, attempt, maxRetries)
                    THEN /\ rpc' = "done"
                         /\ result' = 0
                         /\ err' = ReturnedError(e, first)
                         /\ sleeps' = sleeps
                    ELSE /\ rpc' = "sleep"
                         /\ sleeps' = sleeps + 1
                         /\ UNCHANGED <<result, err>>
    /\ UNCHANGED <<maxRetries, attempt, ctxErr, ctxAtCall, configVars, threadVars, callVars,
                   storeVars, calls, listed, passVars>>

\* sleepWithContext, case <-ctx.Done(): the context is done before the timer
\* fires (the delay is at least minDelay, 500ms), and withRetry returns
\* ctx.Err()
SleepCancelled ==
    /\ rpc = "sleep"
    /\ sleepWithContext(ctxErr) # "nil"
    /\ rpc' = "done"
    /\ result' = 0
    /\ err' = [kind |-> sleepWithContext(ctxErr), from |-> 0]
    /\ UNCHANGED <<maxRetries, attempt, ctxErr, ctxAtCall, outcomes,
                   invocations, sleeps, configVars, threadVars, callVars, storeVars, calls,
                   listed, passVars>>

\* sleepWithContext, case <-timer.C: the timer fires first, the loop goes on
\* with attempt++
SleepElapsed ==
    /\ rpc = "sleep"
    /\ sleepWithContext(ctxErr) = "nil"
    /\ rpc' = "call"
    /\ attempt' = attempt + 1
    /\ UNCHANGED <<maxRetries, ctxErr, ctxAtCall, outcomes, invocations,
                   sleeps, result, err, configVars, threadVars, callVars,
                   storeVars, calls, listed, passVars>>

\* the caller's context is cancelled or its deadline expires while withRetry
\* runs
CancelContext ==
    /\ rpc \in {"call", "sleep"}
    /\ ctxErr = "nil"
    /\ ctxErr' \in {"canceled", "deadline"}
    /\ UNCHANGED <<maxRetries, rpc, attempt, ctxAtCall, outcomes, invocations,
                   sleeps, result, err, configVars, threadVars, callVars,
                   storeVars, calls, listed, passVars>>

\* withRetry is called, with a live or an already finished context
InitRetry ==
    /\ maxRetries \in 0..MaxRetriesBound
    /\ rpc = "call"
    /\ attempt = 0
    /\ ctxErr \in {"nil", "canceled", "deadline"}
    /\ ctxAtCall = ctxErr
    /\ outcomes = <<>>
    /\ invocations = 0
    /\ sleeps = 0
    /\ result = 0
    /\ err = Nil
    /\ domain = <<>>
    /\ subdomainPrefix = FALSE
    /\ baseDomain = <<>>
    /\ ttl = 0
    /\ ThreadsOff
    /\ op = "none"
    /\ arg = <<>>
    /\ ret = "none"
    /\ StoreOff
    /\ PassOff

NextRetry == RetryAttempt \/ SleepCancelled \/ SleepElapsed \/ CancelContext

SpecRetry == InitRetry /\ [][NextRetry]_vars

\* fn returns, and a sleep ends when its timer fires or the context is done
FairSpecRetry ==
    /\ SpecRetry
    /\ WF_vars(RetryAttempt)
    /\ WF_vars(SleepCancelled)
    /\ WF_vars(SleepElapsed)

(***************************************************************************)
(* Record store client (client.go): UpdateRecord and DeleteRecord against  *)
(* the provider's zone.                                                    *)
(*                                                                         *)
(* A record of the zone is [id, name, type, content]. The provider keeps   *)
(* a name lower-cased and without trailing dot and finds records by that   *)
(* form. Every provider call can fail.                                     *)
(***************************************************************************)
\* the name as the provider stores and compares it
ProviderName(name) == ToLower(TrimSuffix(name, Dot))

\* cacheKey := fmt.Sprintf("%s:%s", name, recordType)
cacheKey(name, recordType) == name \o <<":">> \o <<recordType>>

\* a list call that compares the name as given, upper case included
ListDNSRecords_ExactName(z, name, recordType) ==
    {r \in z : r.name = name /\ r.type = recordType}

\* a list call that filters by name only
ListDNSRecords_AnyType(z, name, recordType) ==
    {r \in z : r.name = ProviderName(name)}

\* c.api.ListDNSRecords(ctx, rc, {Name: name, Type: recordType})
ListDNSRecords(z, name, recordType) ==
    {r \in z : r.name = ProviderName(name) /\ r.type = recordType}

\* records[0].ID: the provider lists the oldest record first
FirstID(records) ==
    CHOOSE id \in {r.id : r \in records} : \A r \in records : id <= r.id

\* the record of the zone with an ID, as a set of none or one
ByID(z, id) == {r \in z : r.id = id}

\* the error of one provider call: none, a transport timeout, or an API error
ProviderErrors == {"nil", "timeout", "permanent"}

\* the error of a create the provider refuses when the transport did not fail
Refused(e) == IF e = "nil" THEN "permanent" ELSE e

\* the error of an update or delete of a record ID the provider does not
\* have: its "record not found" answer when the transport did not fail
NotFound(e) == IF e = "nil" THEN "notfound" ELSE e

\* what an operation gives back: its error, the provider calls it made, and
\* the zone, the provider's next ID and the cache after it
Outcome(e, cs, z, n, cache) ==
    [err |-> e, calls |-> cs, zone |-> z, nextID |-> n, cache |-> cache]

\* one provider call: which call, the name passed or looked up, the record ID,
\* the name of the record it changed ("hit" false when it changed none), and
\* the error the provider call returned
ProviderCall(call, name, id, hit, target, e) ==
    [call |-> call, name |-> name, id |-> id, hit |-> hit, target |-> target,
     err |-> e]

\* an UpdateRecord that sends the configured TTL whatever the proxy flag
RecordTTL_Configured(cProxied, cTTL) == cTTL

\* the TTL UpdateRecord sends (client.go:106-110): 1, "automatic", when the
\* client is proxied, else the configured TTL
RecordTTL(cProxied, cTTL) == IF cProxied THEN 1 ELSE cTTL

\* a create or update call: a provider call with the TTL and the proxied
\* flag of its parameters (client.go:114-121, 128-134)
WriteCall(call, name, id, hit, target, e) ==
    [call |-> call, name |-> name, id |-> id, hit |-> hit, target |-> target,
     err |-> e, ttl |-> RecordTTL(proxied, ttl), proxied |-> proxied]

\* Client.UpdateRecord after the scope gate (client.go:79-145). listErr and
\* writeErr are the errors of the provider's list call and of its create or
\* update call ("nil" when the call succeeds); the provider refuses a create
\* beyond its record quota and an update of an ID it does not have.
UpdateRecordInScope(name, recordType, content, listErr, writeErr) ==
    LET key == cacheKey(name, recordType)
        cached == key \in DOMAIN recordCache
        listCall == ProviderCall("list", name, 0, FALSE, <<>>, listErr)
        records == ListDNSRecords(zone, name, recordType)
        found == ~cached /\ records # {}
        recordID == IF cached THEN recordCache[key]
                    ELSE IF found THEN FirstID(records) ELSE 0
        cacheAfterList == IF found
                          THEN [k \in DOMAIN recordCache \cup {key} |->
                                   IF k = key THEN recordID ELSE recordCache[k]]
                          ELSE recordCache
        callsAfterList == IF cached THEN <<>> ELSE <<listCall>>
        old == ByID(zone, recordID)
        oldName == IF old = {} THEN <<>> ELSE (CHOOSE r \in old : TRUE).name
        new == [id |-> recordID, name |-> ProviderName(name),
                type |-> recordType, content |-> content]
        created == [id |-> nextID, name |-> ProviderName(name),
                    type |-> recordType, content |-> content]
    IN  IF ~cached /\ listErr # "nil"
        THEN Outcome("list", <<listCall>>, zone, nextID, recordCache)
        ELSE IF recordID # 0
             THEN IF writeErr = "nil" /\ old # {}
                  THEN Outcome("nil",
                           Append(callsAfterList,
                               WriteCall("update", name, recordID, TRUE,
                                         oldName, "nil")),
                           (zone \ old) \cup {new}, nextID, cacheAfterList)
                  ELSE Outcome("update",
                           Append(callsAfterList,
                               WriteCall("update", name, recordID, FALSE, <<>>,
                                         NotFound(writeErr))),
                           zone, nextID, cacheAfterList)
             ELSE IF writeErr = "nil" /\ nextID <= Cardinality(InitialRecords) + MaxCreated
                  THEN Outcome("nil",
                           Append(callsAfterList,
                               WriteCall("create", name, nextID, TRUE,
                                         ProviderName(name), "nil")),
                           zone \cup {created}, nextID + 1,
                           [k \in DOMAIN recordCache \cup {key} |->
                               IF k = key THEN nextID ELSE recordCache[k]])
                  ELSE Outcome("create",
                           Append(callsAfterList,
                               WriteCall("create", name, 0, FALSE, <<>>,
                                         Refused(writeErr))),
                           zone, nextID, cacheAfterList)

\* UpdateRecord without the scope gate
UpdateRecord_NoScopeGate(name, recordType, content, listErr, writeErr) ==
    UpdateRecordInScope(name, recordType, content, listErr, writeErr)

\* Client.UpdateRecord
UpdateRecord(name, recordType, content, listErr, writeErr) ==
    IF validateRecordName(domain, baseDomain, name) # "nil"
    THEN Outcome("SECURITY", <<>>, zone, nextID, recordCache)
    ELSE UpdateRecordInScope(name, recordType, content, listErr, writeErr)

\* a delete that leaves the entry in the cache
CacheWithout_Kept(cache, key) == cache

\* delete(c.recordCache, cacheKey) (client.go:181-183)
CacheWithout(cache, key) == [k \in DOMAIN cache \ {key} |-> cache[k]]

\* Client.DeleteRecord after the scope gate (client.go:154-187)
DeleteRecordInScope(name, recordType, listErr, writeErr) ==
    LET key == cacheKey(name, recordType)
        cached == key \in DOMAIN recordCache
        listCall == ProviderCall("list", name, 0, FALSE, <<>>, listErr)
        records == ListDNSRecords(zone, name, recordType)
        recordID == IF cached THEN recordCache[key]
                    ELSE IF records # {} THEN FirstID(records) ELSE 0
        callsAfterList == IF cached THEN <<>> ELSE <<listCall>>
        old == ByID(zone, recordID)
        oldName == IF old = {} THEN <<>> ELSE (CHOOSE r \in old : TRUE).name
    IN  IF ~cached /\ listErr # "nil"
        THEN Outcome("list", <<listCall>>, zone, nextID, recordCache)
        ELSE IF ~cached /\ records = {}
             THEN Outcome("nil", <<listCall>>, zone, nextID, recordCache)
             ELSE IF writeErr = "nil" /\ old # {}
                  THEN Outcome("nil",
                           Append(callsAfterList,
                               ProviderCall("delete", name, recordID, TRUE, oldName, "nil")),
                           zone \ old, nextID, CacheWithout(recordCache, key))
                  ELSE Outcome("delete",
                           Append(callsAfterList,
                               ProviderCall("delete", name, recordID, FALSE, <<>>,
                                            NotFound(writeErr))),
                           zone, nextID, recordCache)

\* Client.DeleteRecord
DeleteRecord(name, recordType, listErr, writeErr) ==
    IF validateRecordName(domain, baseDomain, name) # "nil"
    THEN Outcome("SECURITY", <<>>, zone, nextID, recordCache)
    ELSE DeleteRecordInScope(name, recordType, listErr, writeErr)

\* a call of UpdateRecord, with any outcome of the provider calls
CallUpdateRecord ==
    /\ op = "none"
    /\ \E name \in ClientNames, recordType \in RecordTypes, content \in Contents,
          listErr \in ProviderErrors, writeErr \in ProviderErrors :
        LET out == UpdateRecord(name, recordType, content, listErr, writeErr)
        IN  /\ op' = "UpdateRecord"
            /\ arg' = [name |-> name, type |-> recordType, content |-> content]
            /\ ret' = out.err
            /\ calls' = out.calls
            /\ zone' = out.zone
            /\ nextID' = out.nextID
            /\ recordCache' = out.cache
    /\ UNCHANGED <<configVars, threadVars, retryVars, listed, passVars>>

\* a call of DeleteRecord, with any outcome of the provider calls
CallDeleteRecord ==
    /\ op = "none"
    /\ \E name \in ClientNames, recordType \in RecordTypes,
          listErr \in ProviderErrors, writeErr \in ProviderErrors :
        LET out == DeleteRecord(name, recordType, listErr, writeErr)
        IN  /\ op' = "DeleteRecord"
            /\ arg' = [name |-> name, type |-> recordType, content |-> ""]
            /\ ret' = out.err
            /\ calls' = out.calls
            /\ zone' = out.zone
            /\ nextID' = out.nextID
            /\ recordCache' = out.cache
    /\ UNCHANGED <<configVars, threadVars, retryVars, listed, passVars>>

\* c.api.ListDNSRecords(ctx, rc, {Type: recordType}): every record of a type
ListDNSRecordsOfType(z, recordType) == {r \in z : r.type = recordType}

\* a listing that does not skip wildcard names
GetManagedRecordFQDNs_WithWildcards(listAErr, listAAAAErr) ==
    LET listA == ProviderCall("list", <<>>, 0, FALSE, <<>>, listAErr)
        listAAAA == ProviderCall("list", <<>>, 0, FALSE, <<>>, listAAAAErr)
        records == ListDNSRecordsOfType(zone, "A")
                       \cup ListDNSRecordsOfType(zone, "AAAA")
        names == {ToLower(TrimSuffix(r.name, Dot)) : r \in records}
    IN  IF listAErr # "nil"
        THEN [err |-> "list", calls |-> <<listA>>, fqdns |-> {}]
        ELSE IF listAAAAErr # "nil"
             THEN [err |-> "list", calls |-> <<listA, listAAAA>>, fqdns |-> {}]
             ELSE [err |-> "nil", calls |-> <<listA, listAAAA>>,
                   fqdns |-> {n \in names :
                                 IsManagedRecord(domain, baseDomain, n)}]

\* Client.GetManagedRecordFQDNs: the names it returns, as a set (the code
\* returns them once each, in the order of the provider's two lists)
GetManagedRecordFQDNs(listAErr, listAAAAErr) ==
    LET listA == ProviderCall("list", <<>>, 0, FALSE, <<>>, listAErr)
        listAAAA == ProviderCall("list", <<>>, 0, FALSE, <<>>, listAAAAErr)
        records == ListDNSRecordsOfType(zone, "A")
                       \cup ListDNSRecordsOfType(zone, "AAAA")
        names == {ToLower(TrimSuffix(r.name, Dot)) : r \in records}
    IN  IF listAErr # "nil"
        THEN [err |-> "list", calls |-> <<listA>>, fqdns |-> {}]
        ELSE IF listAAAAErr # "nil"
             THEN [err |-> "list", calls |-> <<listA, listAAAA>>, fqdns |-> {}]
             ELSE [err |-> "nil", calls |-> <<listA, listAAAA>>,
                   fqdns |-> {n \in names :
                                 /\ ~HasPrefix(n, <<"*", ".">>)
                                 /\ IsManagedRecord(domain, baseDomain, n)}]

\* a call of GetManagedRecordFQDNs, with any outcome of its two list calls
CallGetManagedRecordFQDNs ==
    /\ op = "none"
    /\ \E listAErr \in ProviderErrors, listAAAAErr \in ProviderErrors :
        LET out == GetManagedRecordFQDNs(listAErr, listAAAAErr)
        IN  /\ op' = "GetManagedRecordFQDNs"
            /\ arg' = <<>>
            /\ ret' = out.err
            /\ calls' = out.calls
            /\ listed' = out.fqdns
    /\ UNCHANGED <<configVars, threadVars, retryVars, storeVars, passVars>>

\* a client built by New for the zone z.p, in direct or in prefix mode, and a
\* zone that is empty or holds the records found there at the start
Init ==
    /\ domain \in ClientDomains
    /\ subdomainPrefix \in BOOLEAN
    /\ baseDomain = GetBaseDomain(domain, subdomainPrefix)
    /\ ttl = 300
    /\ ThreadsOff
    /\ zone \in InitialZones
    /\ nextID = Cardinality(InitialRecords) + 1
    /\ recordCache = <<>>
    /\ calls = <<>>
    /\ listed = {}
    /\ op = "none"
    /\ arg = <<>>
    /\ ret = "none"
    /\ RetryOff
    /\ PassOff

(***************************************************************************)
(* Reconciliation (main.go): updateIPAndDNS and updateSubdomainRecords.    *)
(*                                                                         *)
(* A pass is a sequence of client calls; each call is one step. The todo   *)
(* list holds the calls of the loop the pass is in.                        *)
(***************************************************************************)
\* the elements of a finite set in some order
RECURSIVE SeqOfSet(_)
SeqOfSet(S) ==
    IF S = {}
    THEN <<>>
    ELSE LET x == CHOOSE y \in S : TRUE
         IN  <<x>> \o SeqOfSet(S \ {x})

\* Client.GetManagedSubdomainRecords (part_007:369-407): the label taken from
\* one managed name, <<>> when neither form matches
SubdomainOf(fqdn) ==
    LET dom == ToLower(TrimSuffix(domain, Dot))
        base == ToLower(TrimSuffix(baseDomain, Dot))
        zonePart == SplitN2(dom)[1]
        suffix == Dash \o zonePart \o Dot \o base
    IN  IF HasSuffix(fqdn, Dot \o dom)
        THEN TrimSuffix(fqdn, Dot \o dom)
        ELSE IF base # <<>> /\ base # dom /\ HasSuffix(fqdn, suffix)
             THEN TrimSuffix(fqdn, suffix)
             ELSE <<>>

\* a listing that goes on with the names of the first list when the second
\* list fails
GetManagedSubdomainRecords_PartialOnError(listAErr, listAAAAErr) ==
    LET out == GetManagedRecordFQDNs(listAErr, listAAAAErr)
        partial == GetManagedRecordFQDNs(listAErr, "nil")
    IN  IF listAErr = "nil" /\ listAAAAErr # "nil"
        THEN [err |-> "nil", calls |-> out.calls, fqdns |-> partial.fqdns,
              subdomains |-> {SubdomainOf(f) : f \in partial.fqdns} \ {<<>>}]
        ELSE [err |-> out.err, calls |-> out.calls, fqdns |-> out.fqdns,
              subdomains |-> {SubdomainOf(f) : f \in out.fqdns} \ {<<>>}]

\* Client.GetManagedSubdomainRecords
GetManagedSubdomainRecords(listAErr, listAAAAErr) ==
    LET out == GetManagedRecordFQDNs(listAErr, listAAAAErr)
    IN  [err |-> out.err, calls |-> out.calls, fqdns |-> out.fqdns,
         subdomains |-> {SubdomainOf(f) : f \in out.fqdns} \ {<<>>}]

\* activeFQDNs of updateSubdomainRecords (main.go:298-303)
activeFQDNs(active) ==
    {GetSubdomainFQDN(domain, subdomainPrefix, sub) : sub \in active}

\* one client call of a pass
ClientCall(o, name, recordType, content, service) ==
    [op |-> o, name |-> name, type |-> recordType, content |-> content,
     service |-> service]

\* the UpdateRecord calls of a pass for one name: type A when an IPv4 address
\* was detected, type AAAA when an IPv6 address was
UpdatesFor(name, v4, v6) ==
    (IF v4 # "" THEN <<ClientCall("UpdateRecord", name, "A", v4, <<>>)>>
     ELSE <<>>)
    \o (IF v6 # "" THEN <<ClientCall("UpdateRecord", name, "AAAA", v6, <<>>)>>
        ELSE <<>>)

\* direct updates that build the wildcard name with the name mapper
DirectUpdates_MappedWildcard(v4, v6) ==
    UpdatesFor(domain, v4, v6)
    \o UpdatesFor(GetSubdomainFQDN(domain, subdomainPrefix, <<"*">>), v4, v6)

\* updateIPAndDNS without proxy (main.go:239-255, 261-277): the records of
\* the domain itself, then the wildcard records
DirectUpdates(v4, v6) ==
    UpdatesFor(domain, v4, v6) \o UpdatesFor(<<"*", ".">> \o domain, v4, v6)

\* the update loop of updateSubdomainRecords (main.go:311-328): an A record
\* for each active subdomain when an IPv4 address was detected
RECURSIVE SubdomainUpdates(_, _)
SubdomainUpdates(subs, v4) ==
    IF subs = <<>> \/ v4 = ""
    THEN <<>>
    ELSE <<ClientCall("UpdateRecord",
                      GetSubdomainFQDN(domain, subdomainPrefix, Head(subs)),
                      "A", v4, Head(subs))>>
         \o SubdomainUpdates(Tail(subs), v4)

\* a cleanup loop that also updates the record of each listed subdomain
\* that is still active
RECURSIVE StaleDeletes_UpdatesActive(_, _)
StaleDeletes_UpdatesActive(existing, active) ==
    IF existing = <<>>
    THEN <<>>
    ELSE LET existingFQDN == Head(existing) \o Dot \o domain
         IN  (IF existingFQDN \notin activeFQDNs(active)
              THEN <<ClientCall("DeleteRecord", existingFQDN, "A", "",
                                Head(existing)),
                     ClientCall("DeleteRecord", existingFQDN, "AAAA", "",
                                Head(existing))>>
              ELSE <<ClientCall("UpdateRecord", existingFQDN, "A", ipv4,
                                Head(existing))>>)
             \o StaleDeletes_UpdatesActive(Tail(existing), active)

\* the cleanup loop of updateSubdomainRecords (main.go:337-352): for each
\* listed subdomain whose name is not active, a delete of type A and one of
\* type AAAA
RECURSIVE StaleDeletes(_, _)
StaleDeletes(existing, active) ==
    IF existing = <<>>
    THEN <<>>
    ELSE LET existingFQDN == Head(existing) \o Dot \o domain
         IN  (IF existingFQDN \notin activeFQDNs(active)
              THEN <<ClientCall("DeleteRecord", existingFQDN, "A", "",
                                Head(existing)),
                     ClientCall("DeleteRecord", existingFQDN, "AAAA", "",
                                Head(existing))>>
              ELSE <<>>)
             \o StaleDeletes(Tail(existing), active)

\* the errors a provider call of a pass can return: with the context done
\* every call ends with the context's error, else any provider outcome
CallErrors == IF ctxErr = "nil" THEN ProviderErrors ELSE {ctxErr}

\* the client method a laid-out call invokes
ClientOp(c, listErr, writeErr) ==
    IF c.op = "UpdateRecord"
    THEN UpdateRecord(c.name, c.type, c.content, listErr, writeErr)
    ELSE DeleteRecord(c.name, c.type, listErr, writeErr)

\* a loop that stops at the first call that fails
Remaining_StopOnError(rest, e) == IF e = "nil" THEN rest ELSE <<>>

\* the calls a loop of the pass still makes after a call that returned e:
\* the error is logged and the loop goes on (main.go:317-321, 343-350)
Remaining(rest, e) == rest

\* the entry of a client call in the record of the pass: the call, its
\* error, whether one of its provider calls failed in the transport or at
\* the provider, and ctx.Err() when it was made
IssuedCall(o, name, recordType, out) ==
    [op |-> o, name |-> name, type |-> recordType, err |-> out.err,
     fault |-> \E i \in DOMAIN out.calls :
                  out.calls[i].err \in {"timeout", "permanent"},
     ctx |-> ctxErr]

\* where a pass goes on after its update calls
AfterUpdates(rest) ==
    IF rest # <<>> THEN "update" ELSE IF proxied THEN "list" ELSE "done"

\* updateIPAndDNS up to its first client call: the addresses are detected
\* (with the context done Detect fails and the pass returns, and run leaves
\* its loop), the active subdomains read, and the calls of the update loop
\* laid out
PassStart ==
    /\ pc \in {"idle", "done"}
    /\ ctxErr = "nil"
    /\ passes < MaxPasses
    /\ \E active \in SUBSET ServiceLabels, v4 \in DetectedIPv4, v6 \in DetectedIPv6 :
        LET updates == IF proxied
                       THEN SubdomainUpdates(SeqOfSet(active), v4)
                       ELSE DirectUpdates(v4, v6)
        IN  /\ v4 # "" \/ v6 # ""
            /\ desired' = active
            /\ ipv4' = v4
            /\ ipv6' = v6
            /\ todo' = updates
            /\ pc' = AfterUpdates(updates)
    /\ passes' = passes + 1
    /\ issued' = <<>>
    /\ faulty' = FALSE
    /\ zoneAtStart' = zone
    /\ calls' = <<>>
    /\ listed' = {}
    /\ UNCHANGED <<configVars, threadVars, callVars, retryVars, storeVars, proxied, published>>

\* one UpdateRecord call of the pass; its error is logged and the pass goes on
PassUpdate ==
    /\ pc = "update"
    /\ todo # <<>>
    /\ \E listErr \in CallErrors, writeErr \in CallErrors :
        LET c == Head(todo)
            out == ClientOp(c, listErr, writeErr)
        IN  /\ zone' = out.zone
            /\ nextID' = out.nextID
            /\ recordCache' = out.cache
            /\ calls' = out.calls
            /\ issued' = Append(issued, IssuedCall(c.op, c.name, c.type, out))
            /\ faulty' = (faulty \/ out.err # "nil")
            /\ published' = IF out.err = "nil" /\ c.service # <<>>
                            THEN published \cup {c.service}
                            ELSE published
            /\ todo' = Remaining(Tail(todo), out.err)
            /\ pc' = AfterUpdates(Remaining(Tail(todo), out.err))
    /\ UNCHANGED <<configVars, threadVars, callVars, retryVars, listed, proxied, passes,
                   desired, ipv4, ipv6, zoneAtStart>>

\* the call of GetManagedSubdomainRecords: on an error the pass returns, else
\* the deletes of the cleanup loop are laid out
PassList ==
    /\ pc = "list"
    /\ \E listAErr \in CallErrors, listAAAAErr \in CallErrors :
        LET out == GetManagedSubdomainRecords(listAErr, listAAAAErr)
            deletes == StaleDeletes(SeqOfSet(out.subdomains), desired)
        IN  /\ calls' = out.calls
            /\ listed' = out.fqdns
            /\ issued' = Append(issued,
                              IssuedCall("GetManagedSubdomainRecords", <<>>, "",
                                         out))
            /\ faulty' = (faulty \/ out.err # "nil")
            /\ todo' = IF out.err = "nil" THEN deletes ELSE <<>>
            /\ pc' = IF out.err = "nil" /\ deletes # <<>> THEN "delete" ELSE "done"
    /\ UNCHANGED <<configVars, threadVars, callVars, retryVars, storeVars, proxied, passes,
                   desired, ipv4, ipv6, zoneAtStart, published>>

\* one DeleteRecord call of the cleanup loop; its error is logged and the
\* loop goes on
PassDelete ==
    /\ pc = "delete"
    /\ todo # <<>>
    /\ \E listErr \in CallErrors, writeErr \in CallErrors :
        LET c == Head(todo)
            out == ClientOp(c, listErr, writeErr)
        IN  /\ zone' = out.zone
            /\ nextID' = out.nextID
            /\ recordCache' = out.cache
            /\ calls' = out.calls
            /\ issued' = Append(issued, IssuedCall(c.op, c.name, c.type, out))
            /\ faulty' = (faulty \/ out.err # "nil")
            /\ todo' = Remaining(Tail(todo), out.err)
            /\ pc' = IF Remaining(Tail(todo), out.err) = <<>>
                     THEN "done" ELSE "delete"
    /\ UNCHANGED <<configVars, threadVars, callVars, retryVars, listed, proxied, passes,
                   desired, ipv4, ipv6, zoneAtStart, published>>

\* the service after main has built the configuration and the client, before
\* its first pass; the zone is empty or holds records of others
InitPass ==
    /\ domain \in ClientDomains
    /\ subdomainPrefix \in BOOLEAN
    /\ baseDomain = GetBaseDomain(domain, subdomainPrefix)
    /\ ttl = 300
    /\ ThreadsOff
    /\ proxied \in BOOLEAN
    /\ zone \in {{}, ForeignRecords}
    /\ nextID = 1
    /\ recordCache = <<>>
    /\ calls = <<>>
    /\ listed = {}
    /\ op = "none"
    /\ arg = <<>>
    /\ ret = "none"
    /\ pc = "idle"
    /\ passes = 0
    /\ desired = {}
    /\ ipv4 = ""
    /\ ipv6 = ""
    /\ todo = <<>>
    /\ issued = <<>>
    /\ faulty = FALSE
    /\ zoneAtStart = {}
    /\ published = {}
    /\ RetryOff

NextPass == PassStart \/ PassUpdate \/ PassList \/ PassDelete

SpecPass == InitPass /\ [][NextPass]_vars

\* the context of run is cancelled (a signal arrives) while a pass is
\* under way
PassCancel ==
    /\ pc \in {"update", "list", "delete"}
    /\ ctxErr = "nil"
    /\ ctxErr' = "canceled"
    /\ UNCHANGED <<configVars, threadVars, callVars, maxRetries, rpc, attempt, ctxAtCall,
                   outcomes, invocations, sleeps, result, err, storeVars,
                   calls, listed, passVars>>

NextPassCancel ==
    PassStart \/ PassUpdate \/ PassList \/ PassDelete \/ PassCancel

\* the passes of a run whose context can be cancelled
SpecPassCancel == InitPass /\ [][NextPassCancel]_vars

\* between two passes someone else removes, at the provider, a record whose
\* ID the client has cached
RecordRemovedByOthers ==
    /\ pc = "done"
    /\ \E r \in zone :
        /\ \E k \in DOMAIN recordCache : recordCache[k] = r.id
        /\ zone' = zone \ {r}
    /\ pc' = "idle"
    /\ UNCHANGED <<configVars, threadVars, callVars, retryVars, nextID, recordCache, calls,
                   listed, proxied, passes, desired, ipv4, ipv6, todo, issued,
                   faulty, zoneAtStart, published>>

NextPassShared ==
    PassStart \/ PassUpdate \/ PassList \/ PassDelete \/ RecordRemovedByOthers

\* the passes of a run on a zone that others change too
SpecPassShared == InitPass /\ [][NextPassShared]_vars

(***************************************************************************)
(* SpecNames: a client built by New from any configuration, and calls of   *)
(* the pure functions with any argument.                                   *)
(***************************************************************************)
\* config.Load keeps only a configuration whose Domain is not empty
\* (Config.Validate); cloudflare.New copies domain and sets baseDomain
InitNames ==
    /\ domain \in Domains \ {<<>>}
    /\ subdomainPrefix \in BOOLEAN
    /\ baseDomain = GetBaseDomain(domain, subdomainPrefix)
    /\ ttl = 0
    /\ ThreadsOff
    /\ op = "none"
    /\ arg = <<>>
    /\ ret = "none"
    /\ RetryOff
    /\ StoreOff
    /\ PassOff

CallValidate ==
    /\ op = "none"
    /\ \E name \in Names :
        /\ op' = "validate"
        /\ arg' = name
        /\ ret' = validateRecordName(domain, baseDomain, name)
        /\ UNCHANGED <<configVars, threadVars, retryVars, storeVars, calls, listed, passVars>>

CallIsManaged ==
    /\ op = "none"
    /\ \E name \in Names \cup ManagedTestNames :
        /\ op' = "managed"
        /\ arg' = name
        /\ ret' = IsManagedRecord(domain, baseDomain, name)
        /\ UNCHANGED <<configVars, threadVars, retryVars, storeVars, calls, listed, passVars>>

CallGetSubdomainFQDN ==
    /\ op = "none"
    /\ \E service \in Services :
        /\ op' = "fqdn"
        /\ arg' = service
        /\ ret' = GetSubdomainFQDN(domain, subdomainPrefix, service)
        /\ UNCHANGED <<configVars, threadVars, retryVars, storeVars, calls, listed, passVars>>

\* the caller has used the result
Return ==
    /\ op # "none"
    /\ op' = "none"
    /\ arg' = <<>>
    /\ ret' = "none"
    /\ calls' = <<>>
    /\ listed' = {}
    /\ UNCHANGED <<configVars, threadVars, retryVars, storeVars, passVars>>

Next ==
    \/ CallUpdateRecord
    \/ CallDeleteRecord
    \/ CallGetManagedRecordFQDNs
    \/ Return

Spec == Init /\ [][Next]_vars

\* a client as New returns it, proxied or not, with a TTL from the
\* configuration (at least 60 seconds)
ClientTTLs == {60, 300}

InitWrite ==
    /\ domain \in ClientDomains
    /\ subdomainPrefix \in BOOLEAN
    /\ baseDomain = GetBaseDomain(domain, subdomainPrefix)
    /\ ttl \in ClientTTLs
    /\ ThreadsOff
    /\ proxied \in BOOLEAN
    /\ zone \in InitialZones
    /\ nextID = Cardinality(InitialRecords) + 1
    /\ recordCache = <<>>
    /\ calls = <<>>
    /\ listed = {}
    /\ op = "none"
    /\ arg = <<>>
    /\ ret = "none"
    /\ pc = "off"
    /\ passes = 0
    /\ desired = {}
    /\ ipv4 = ""
    /\ ipv6 = ""
    /\ todo = <<>>
    /\ issued = <<>>
    /\ faulty = FALSE
    /\ zoneAtStart = {}
    /\ published = {}
    /\ RetryOff

NextWrite == CallUpdateRecord \/ Return

\* the creates and updates of a client
SpecWrite == InitWrite /\ [][NextWrite]_vars

NextNames == CallValidate \/ CallIsManaged \/ CallGetSubdomainFQDN \/ Return

SpecNames == InitNames /\ [][NextNames]_vars

(***************************************************************************)
(* The backoff of withRetry (retry.go:71-80). A time.Duration is an int64  *)
(* count of nanoseconds, modelled as the eight bytes of its two's          *)
(* complement, lowest byte first, so that a shift and a product wrap at    *)
(* 64 bits as they do in Go.                                               *)
(***************************************************************************)
\* time.Duration(n) for a natural number below 2^31
Duration(n) ==
    [i \in 1..8 |-> IF i <= 4 THEN (n \div 256^(i - 1)) % 256 ELSE 0]

\* time.Duration(1 << k) for k >= 0: bit k alone, and 0 when k is 64 or more
OneShiftedLeft(k) ==
    [i \in 1..8 |-> IF k < 64 /\ k \div 8 = i - 1 THEN 2^(k % 8) ELSE 0]

\* the sum of a[i] * b[k + 1 - i] for i in from..k
RECURSIVE ByteProducts(_, _, _, _)
ByteProducts(a, b, k, from) ==
    IF from > k
    THEN 0
    ELSE a[from] * b[k + 1 - from] + ByteProducts(a, b, k, from + 1)

\* the bytes k..8 of a * b, given the carry into byte k
RECURSIVE MulFrom(_, _, _, _)
MulFrom(a, b, k, carry) ==
    IF k > 8
    THEN <<>>
    ELSE LET t == ByteProducts(a, b, k, 1) + carry
         IN  <<t % 256>> \o MulFrom(a, b, k + 1, t \div 256)

\* a * b on 64 bits: what does not fit is lost
DurationMul(a, b) == MulFrom(a, b, 1, 0)

\* a < 0
Negative(a) == a[8] >= 128

\* a > b for two Durations
Greater(a, b) ==
    IF Negative(a) # Negative(b)
    THEN Negative(b)
    ELSE \E i \in 1..8 :
             /\ a[i] > b[i]
             /\ \A j \in (i + 1)..8 : a[j] = b[j]

\* n * time.Millisecond
Milliseconds(n) == DurationMul(Duration(n), Duration(1000000))

\* the delays, in milliseconds, of cfRetryConfig (retry.go:17-21) and of the
\* configurations the tests of withRetry install
DelayConfigs ==
    {[minDelay |-> 500, maxDelay |-> 5000],
     [minDelay |-> 10, maxDelay |-> 10],
     [minDelay |-> 0, maxDelay |-> 0]}

\* retryDelay: 1 << attempt is shifted as a time.Duration, and the product
\* wraps at 64 bits before it is compared with maxDelay
retryDelay(a, minDelay, maxDelay) ==
    LET att == IF a < 0 THEN 0 ELSE a
        backoff == DurationMul(minDelay, OneShiftedLeft(att))
    IN  IF Greater(backoff, maxDelay) THEN maxDelay ELSE backoff

\* no call in progress
InitDelay ==
    /\ domain = <<>>
    /\ subdomainPrefix = FALSE
    /\ baseDomain = <<>>
    /\ ttl = 0
    /\ ThreadsOff
    /\ op = "none"
    /\ arg = <<>>
    /\ ret = "none"
    /\ RetryOff
    /\ StoreOff
    /\ PassOff

\* a call of retryDelay, as withRetry makes it before a sleep
CallRetryDelay ==
    /\ op = "none"
    /\ \E a \in 0..MaxAttempt, cfg \in DelayConfigs :
        /\ op' = "retryDelay"
        /\ arg' = [attempt |-> a, minDelay |-> cfg.minDelay,
                   maxDelay |-> cfg.maxDelay]
        /\ ret' = retryDelay(a, Milliseconds(cfg.minDelay),
                             Milliseconds(cfg.maxDelay))
    /\ UNCHANGED <<configVars, threadVars, retryVars, storeVars, calls, listed, passVars>>

NextDelay == CallRetryDelay \/ Return

SpecDelay == InitDelay /\ [][NextDelay]_vars

(***************************************************************************)
(* Goroutines that call one Client at the same time (client.go:73-187).    *)
(*                                                                         *)
(* A step is one statement of UpdateRecord or DeleteRecord: a lock or an   *)
(* unlock of cacheMu, an access of recordCache, or the return of a         *)
(* provider call. A goroutine at "list", "write" or "delete" has a         *)
(* provider call in flight. cacheMu is a sync.RWMutex: RLock waits for the *)
(* writer, Lock waits for the writer and for every reader.                 *)
(***************************************************************************)
\* the goroutines, and the names and the record type they call the client with
Goroutines == {"g1", "g2"}
LockNames == {NameService, NameServiceUpper, NameForeign}
LockType == "A"
LockContent == "192.0.2.1"

\* a goroutine outside the client
Idle ==
    [pc |-> "idle", op |-> "none", name |-> <<>>, recordID |-> 0,
     cached |-> FALSE, err |-> "none"]

\* the lock of cacheMu the goroutine g holds
HeldBy(g) ==
    IF cacheMu.writer = g THEN "write"
    ELSE IF g \in cacheMu.readers THEN "read" ELSE "none"

\* the goroutine g with some of its fields changed
At(g, fields) ==
    [goroutine EXCEPT ![g] =
        [f \in DOMAIN goroutine[g] |->
            IF f \in DOMAIN fields THEN fields[f] ELSE goroutine[g][f]]]

\* after RUnlock: the list call when the cache had no entry (client.go:88,
\* 162), else the update (client.go:112-114) or the delete (client.go:177)
AfterRUnlock(o, cached) ==
    IF ~cached THEN "list"
    ELSE IF o = "UpdateRecord" THEN "write" ELSE "delete"

\* a client that goes on to its provider call with the read lock held
AfterCacheRead_NoUnlock(o, cached) == AfterRUnlock(o, cached)

\* after the read of the cache: c.cacheMu.RUnlock() (client.go:84, 158)
AfterCacheRead(o, cached) == "runlock"

\* a goroutine calls UpdateRecord or DeleteRecord: the scope gate
\* (client.go:75-77, 150-152)
StartCall(g) ==
    /\ goroutine[g].pc = "idle"
    /\ \E o \in {"UpdateRecord", "DeleteRecord"}, name \in LockNames :
        goroutine' =
            IF validateRecordName(domain, baseDomain, name) # "nil"
            THEN At(g, [pc |-> "returned", op |-> o, name |-> name,
                        err |-> "SECURITY"])
            ELSE At(g, [pc |-> "rlock", op |-> o, name |-> name])
    /\ UNCHANGED <<configVars, callVars, retryVars, storeVars, calls, listed,
                   passVars, mainVars, cacheMu, access>>

\* c.cacheMu.RLock() (client.go:82, 156)
RLock(g) ==
    /\ goroutine[g].pc = "rlock"
    /\ cacheMu.writer = "none"
    /\ cacheMu' = [cacheMu EXCEPT !.readers = @ \cup {g}]
    /\ goroutine' = At(g, [pc |-> "read"])
    /\ UNCHANGED <<configVars, callVars, retryVars, storeVars, calls, listed,
                   passVars, mainVars, access>>

\* recordID, cached := c.recordCache[cacheKey] (client.go:83, 157)
ReadCache(g) ==
    /\ goroutine[g].pc = "read"
    /\ LET key == cacheKey(goroutine[g].name, LockType)
           cached == key \in DOMAIN recordCache
       IN  goroutine' =
               At(g, [pc |-> AfterCacheRead(goroutine[g].op, cached),
                      cached |-> cached,
                      recordID |-> IF cached THEN recordCache[key] ELSE 0])
    /\ access' = [by |-> g, kind |-> "read", held |-> HeldBy(g)]
    /\ UNCHANGED <<configVars, callVars, retryVars, storeVars, calls, listed,
                   passVars, mainVars, cacheMu>>

\* c.cacheMu.RUnlock() (client.go:84, 158)
RUnlock(g) ==
    /\ goroutine[g].pc = "runlock"
    /\ cacheMu' = [cacheMu EXCEPT !.readers = @ \ {g}]
    /\ goroutine' = At(g, [pc |-> AfterRUnlock(goroutine[g].op,
                                               goroutine[g].cached)])
    /\ UNCHANGED <<configVars, callVars, retryVars, storeVars, calls, listed,
                   passVars, mainVars, access>>

\* c.api.ListDNSRecords returns (client.go:90-99, 164-174)
ListReturns(g) ==
    /\ goroutine[g].pc = "list"
    /\ \E e \in ProviderErrors :
        LET records == ListDNSRecords(zone, goroutine[g].name, LockType)
        IN  goroutine' =
                IF e # "nil"
                THEN At(g, [pc |-> "returned", err |-> "list"])
                ELSE IF records = {}
                     THEN IF goroutine[g].op = "UpdateRecord"
                          THEN At(g, [pc |-> "write"])
                          ELSE At(g, [pc |-> "returned", err |-> "nil"])
                     ELSE IF goroutine[g].op = "UpdateRecord"
                          THEN At(g, [pc |-> "lock_found",
                                      recordID |-> FirstID(records)])
                          ELSE At(g, [pc |-> "delete",
                                      recordID |-> FirstID(records)])
    /\ UNCHANGED <<configVars, callVars, retryVars, storeVars, calls, listed,
                   passVars, mainVars, cacheMu, access>>

\* c.cacheMu.Lock() (client.go:100, 138, 181)
Lock(g) ==
    /\ goroutine[g].pc \in {"lock_found", "lock_created", "lock_deleted"}
    /\ cacheMu.writer = "none"
    /\ cacheMu.readers = {}
    /\ cacheMu' = [cacheMu EXCEPT !.writer = g]
    /\ goroutine' =
           At(g, [pc |-> IF goroutine[g].pc = "lock_found" THEN "store_found"
                         ELSE IF goroutine[g].pc = "lock_created"
                              THEN "store_created" ELSE "remove"])
    /\ UNCHANGED <<configVars, callVars, retryVars, storeVars, calls, listed,
                   passVars, mainVars, access>>

\* c.recordCache[cacheKey] = recordID (client.go:101, 139)
StoreCache(g) ==
    /\ goroutine[g].pc \in {"store_found", "store_created"}
    /\ LET key == cacheKey(goroutine[g].name, LockType)
       IN  recordCache' =
               [k \in DOMAIN recordCache \cup {key} |->
                   IF k = key THEN goroutine[g].recordID ELSE recordCache[k]]
    /\ access' = [by |-> g, kind |-> "write", held |-> HeldBy(g)]
    /\ goroutine' =
           At(g, [pc |-> IF goroutine[g].pc = "store_found"
                         THEN "unlock_found" ELSE "unlock_created"])
    /\ UNCHANGED <<configVars, callVars, retryVars, zone, nextID, calls, listed,
                   passVars, mainVars, cacheMu>>

\* delete(c.recordCache, cacheKey) (client.go:182)
RemoveCache(g) ==
    /\ goroutine[g].pc = "remove"
    /\ recordCache' =
           CacheWithout(recordCache, cacheKey(goroutine[g].name, LockType))
    /\ access' = [by |-> g, kind |-> "write", held |-> HeldBy(g)]
    /\ goroutine' = At(g, [pc |-> "unlock_deleted"])
    /\ UNCHANGED <<configVars, callVars, retryVars, zone, nextID, calls, listed,
                   passVars, mainVars, cacheMu>>

\* c.cacheMu.Unlock() (client.go:102, 140, 183)
Unlock(g) ==
    /\ goroutine[g].pc \in {"unlock_found", "unlock_created", "unlock_deleted"}
    /\ cacheMu' = [cacheMu EXCEPT !.writer = "none"]
    /\ goroutine' =
           IF goroutine[g].pc = "unlock_found"
           THEN At(g, [pc |-> "write"])
           ELSE At(g, [pc |-> "returned", err |-> "nil"])
    /\ UNCHANGED <<configVars, callVars, retryVars, storeVars, calls, listed,
                   passVars, mainVars, access>>

\* c.api.UpdateDNSRecord or c.api.CreateDNSRecord returns (client.go:112-137)
WriteReturns(g) ==
    /\ goroutine[g].pc = "write"
    /\ \E e \in ProviderErrors :
        LET recordID == goroutine[g].recordID
            old == ByID(zone, recordID)
            new == [id |-> recordID, name |-> ProviderName(goroutine[g].name),
                    type |-> LockType, content |-> LockContent]
            created == [id |-> nextID, name |-> ProviderName(goroutine[g].name),
                        type |-> LockType, content |-> LockContent]
        IN  IF recordID # 0
            THEN IF e = "nil" /\ old # {}
                 THEN /\ zone' = (zone \ old) \cup {new}
                      /\ nextID' = nextID
                      /\ goroutine' = At(g, [pc |-> "returned", err |-> "nil"])
                 ELSE /\ UNCHANGED <<zone, nextID>>
                      /\ goroutine' = At(g, [pc |-> "returned", err |-> "update"])
            ELSE IF e = "nil" /\ nextID <= Cardinality(InitialRecords) + MaxCreated
                 THEN /\ zone' = zone \cup {created}
                      /\ nextID' = nextID + 1
                      /\ goroutine' = At(g, [pc |-> "lock_created",
                                             recordID |-> nextID])
                 ELSE /\ UNCHANGED <<zone, nextID>>
                      /\ goroutine' = At(g, [pc |-> "returned", err |-> "create"])
    /\ UNCHANGED <<configVars, callVars, retryVars, recordCache, calls, listed,
                   passVars, mainVars, cacheMu, access>>

\* c.api.DeleteDNSRecord returns (client.go:177-179)
DeleteReturns(g) ==
    /\ goroutine[g].pc = "delete"
    /\ \E e \in ProviderErrors :
        LET old == ByID(zone, goroutine[g].recordID)
        IN  IF e = "nil" /\ old # {}
            THEN /\ zone' = zone \ old
                 /\ goroutine' = At(g, [pc |-> "lock_deleted"])
            ELSE /\ UNCHANGED zone
                 /\ goroutine' = At(g, [pc |-> "returned", err |-> "delete"])
    /\ UNCHANGED <<configVars, callVars, retryVars, nextID, recordCache, calls,
                   listed, passVars, mainVars, cacheMu, access>>

\* UpdateRecord or DeleteRecord returns to its caller
ReturnFrom(g) ==
    /\ goroutine[g].pc = "returned"
    /\ goroutine' = [goroutine EXCEPT ![g] = Idle]
    /\ UNCHANGED <<configVars, callVars, retryVars, storeVars, calls, listed,
                   passVars, mainVars, cacheMu, access>>

\* a client built by New for the zone z.p and goroutines that share it
InitLock ==
    /\ domain \in ClientDomains
    /\ subdomainPrefix = FALSE
    /\ baseDomain = GetBaseDomain(domain, subdomainPrefix)
    /\ ttl = 300
    /\ zone \in InitialZones
    /\ nextID = Cardinality(InitialRecords) + 1
    /\ recordCache = <<>>
    /\ calls = <<>>
    /\ listed = {}
    /\ op = "none"
    /\ arg = <<>>
    /\ ret = "none"
    /\ RetryOff
    /\ PassOff
    /\ cacheMu = [readers |-> {}, writer |-> "none"]
    /\ goroutine = [g \in Goroutines |-> Idle]
    /\ access = [by |-> "none", kind |-> "none", held |-> "none"]
    /\ MainOff

NextLock ==
    \E g \in Goroutines :
        \/ StartCall(g)
        \/ RLock(g)
        \/ ReadCache(g)
        \/ RUnlock(g)
        \/ ListReturns(g)
        \/ Lock(g)
        \/ StoreCache(g)
        \/ RemoveCache(g)
        \/ Unlock(g)
        \/ WriteReturns(g)
        \/ DeleteReturns(g)
        \/ ReturnFrom(g)

SpecLock == InitLock /\ [][NextLock]_vars

(***************************************************************************)
(* The goroutines of main (main.go:59-212, 355-391): the control loop, the *)
(* discovery loop or the mappings-file watcher, and the status server.     *)
(*                                                                         *)
(* A pass is a call of updateIPAndDNS, here without its provider calls:    *)
(* it detects the addresses, reads the active subdomains and returns. The  *)
(* services are the subdomains of the ingress services.                    *)
(***************************************************************************)
Threads == {"control", "discovery", "watcher", "status"}
MainServices == {"s"}

\* a service in a poll answer that has no ingress configuration
NoIngress == "n"

\* everything but the goroutines of main
otherVars ==
    <<configVars, callVars, storeVars, calls, listed, passVars, lockVars,
      maxRetries, rpc, attempt, ctxAtCall, outcomes, invocations, sleeps,
      result, err>>

\* the goroutine started after the initial pass (main.go:153-162)
ModeThread == IF useDiscovery THEN "discovery" ELSE "watcher"

\* a []Service: the nil slice, or the subdomains of its elements
NilServices == [nil |-> TRUE, items |-> {}]

\* Client.parseServices (discovery/client.go:219-253): the responses with an
\* ingress configuration, appended to a nil slice
parseServices(responses) ==
    LET services == responses \ {NoIngress}
    IN  [nil |-> services = {}, items |-> services]

\* Client.PollWithEvents and Client.Poll (discovery/client.go:148-216)
PollWithEvents(pollErr, changed, payload, fetchErr) ==
    IF pollErr
    THEN [err |-> TRUE, changed |-> FALSE, services |-> NilServices]
    ELSE IF ~changed
         THEN [err |-> FALSE, changed |-> FALSE, services |-> NilServices]
         ELSE IF payload # {}
              THEN [err |-> FALSE, changed |-> TRUE,
                    services |-> parseServices(payload)]
              ELSE IF fetchErr
                   THEN [err |-> TRUE, changed |-> TRUE,
                         services |-> NilServices]
                   ELSE [err |-> FALSE, changed |-> TRUE,
                         services |-> parseServices(ingress)]

\* what started a pass, by the call of updateIPAndDNS
PassCalls == {"call_initial", "call_periodic", "call_change"}
CauseOf(position) ==
    IF position = "call_initial" THEN "initial"
    ELSE IF position = "call_periodic" THEN "ticker" ELSE "change"

\* where a goroutine goes on when updateIPAndDNS has returned
AfterPass(th) ==
    IF th # "control" THEN "check"
    ELSE IF thread[ModeThread] = "unstarted" THEN "spawn" ELSE "select"

\* a discovery loop that reconciles after it has updated the services
AfterDiscoveryUpdate_Reconciles == "call_change"

\* runDiscoveryLoop after caddyGen.Generate(): the next iteration
\* (main.go:204-210)
AfterDiscoveryUpdate == "check"

\* runControlLoop: the initial services or mappings (main.go:128-141)
LoadInitial ==
    /\ thread["control"] = "load"
    /\ \E loadErr \in BOOLEAN :
        discovered' = IF loadErr THEN discovered
                      ELSE IF useDiscovery THEN parseServices(ingress).items
                           ELSE ingress
    /\ thread' = [thread EXCEPT !["control"] = "generate"]
    /\ UNCHANGED <<otherVars, ctxErr, useDiscovery, inPass, ingress, unreported,
                   generated, event, passSet, passCause, tick, changes>>

\* runControlLoop: caddyGen.Generate() (main.go:144-146)
GenerateInitial ==
    /\ thread["control"] = "generate"
    /\ generated' = discovered
    /\ thread' = [thread EXCEPT !["control"] = "call_initial"]
    /\ UNCHANGED <<otherVars, ctxErr, useDiscovery, inPass, ingress, unreported,
                   discovered, event, passSet, passCause, tick, changes>>

\* a goroutine calls updateIPAndDNS (main.go:150, 172)
PassBegin(th) ==
    /\ thread[th] \in PassCalls
    /\ inPass' = inPass \cup {th}
    /\ passCause' = CauseOf(thread[th])
    /\ thread' = [thread EXCEPT ![th] = "pass_detect"]
    /\ UNCHANGED <<otherVars, ctxErr, useDiscovery, ingress, unreported,
                   discovered, generated, event, passSet, tick, changes>>

\* updateIPAndDNS: detector.Detect, and in direct mode the root and the
\* wildcard records (main.go:222-278)
PassDetect(th) ==
    /\ thread[th] = "pass_detect"
    /\ \E detectErr \in BOOLEAN :
        IF detectErr \/ ~proxied
        THEN /\ inPass' = inPass \ {th}
             /\ thread' = [thread EXCEPT ![th] = AfterPass(th)]
        ELSE /\ inPass' = inPass
             /\ thread' = [thread EXCEPT ![th] = "pass_subdomains"]
    /\ UNCHANGED <<otherVars, ctxErr, useDiscovery, ingress, unreported,
                   discovered, generated, event, passSet, passCause, tick,
                   changes>>

\* updateSubdomainRecords: caddyGen.GetActiveSubdomains() (main.go:296)
PassSubdomains(th) ==
    /\ thread[th] = "pass_subdomains"
    /\ passSet' = discovered
    /\ thread' = [thread EXCEPT ![th] = "pass_records"]
    /\ UNCHANGED <<otherVars, ctxErr, useDiscovery, inPass, ingress, unreported,
                   discovered, generated, event, passCause, tick, changes>>

\* updateSubdomainRecords and updateIPAndDNS return (main.go:311-353, 262)
PassReturn(th) ==
    /\ thread[th] = "pass_records"
    /\ inPass' = inPass \ {th}
    /\ thread' = [thread EXCEPT ![th] = AfterPass(th)]
    /\ UNCHANGED <<otherVars, ctxErr, useDiscovery, ingress, unreported,
                   discovered, generated, event, passSet, passCause, tick,
                   changes>>

\* runControlLoop: go runDiscoveryLoop or go mappingMgr.Watch, and the
\* ticker (main.go:153-166)
Spawn ==
    /\ thread["control"] = "spawn"
    /\ thread' = [thread EXCEPT ![ModeThread] =
                                    IF useDiscovery THEN "check" ELSE "watch",
                                !["control"] = "select"]
    /\ UNCHANGED <<otherVars, ctxErr, useDiscovery, inPass, ingress, unreported,
                   discovered, generated, event, passSet, passCause, tick,
                   changes>>

\* the ticker fires; ticker.C holds one tick at most
Tick ==
    /\ thread["control"] \in {"select", "call_periodic", "pass_detect",
                              "pass_subdomains", "pass_records"}
    /\ thread[ModeThread] # "unstarted"
    /\ ~tick
    /\ tick' = TRUE
    /\ UNCHANGED <<otherVars, ctxErr, useDiscovery, thread, inPass, ingress,
                   unreported, discovered, generated, event, passSet, passCause,
                   changes>>

\* runControlLoop: case <-ticker.C (main.go:171-172)
SelectTick ==
    /\ thread["control"] = "select"
    /\ tick
    /\ tick' = FALSE
    /\ thread' = [thread EXCEPT !["control"] = "call_periodic"]
    /\ UNCHANGED <<otherVars, ctxErr, useDiscovery, inPass, ingress, unreported,
                   discovered, generated, event, passSet, passCause, changes>>

\* case <-ctx.Done() of a loop, and the shutdown of the status server
\* (main.go:169-170, 184-186, 195-196, 381-384; manager.go:131-132)
ContextDone(th) ==
    /\ ctxErr # "nil"
    /\ \/ th = "control" /\ thread[th] = "select"
       \/ th = "discovery" /\ thread[th] \in {"check", "wait"}
       \/ th = "watcher" /\ thread[th] = "watch"
       \/ th = "status" /\ thread[th] = "listen"
    /\ thread' = [thread EXCEPT ![th] = "stopped"]
    /\ UNCHANGED <<otherVars, ctxErr, useDiscovery, inPass, ingress, unreported,
                   discovered, generated, event, passSet, passCause, tick,
                   changes>>

\* main: cancel() after a signal (main.go:107-112)
Shutdown ==
    /\ ctxErr = "nil"
    /\ ctxErr' = "canceled"
    /\ UNCHANGED <<otherVars, mainVars>>

\* runDiscoveryLoop: the select with a default case (main.go:183-187)
DiscoveryCheck ==
    /\ thread["discovery"] = "check"
    /\ ctxErr = "nil"
    /\ thread' = [thread EXCEPT !["discovery"] = "poll"]
    /\ UNCHANGED <<otherVars, ctxErr, useDiscovery, inPass, ingress, unreported,
                   discovered, generated, event, passSet, passCause, tick,
                   changes>>

\* the answers the poll endpoint can give: with the services in the answer,
\* among them one without ingress or not, or without services
Payloads == {{}, ingress, ingress \cup {NoIngress}}

\* runDiscoveryLoop: client.Poll returns (main.go:189-203). A change of the
\* services not yet reported is answered with changed=true.
PollReturns ==
    /\ thread["discovery"] = "poll"
    /\ \E pollErr \in BOOLEAN, changed \in BOOLEAN, payload \in Payloads,
          fetchErr \in BOOLEAN :
        LET out == PollWithEvents(pollErr \/ ctxErr # "nil", changed, payload,
                                  fetchErr)
        IN  /\ unreported => changed
            /\ IF out.err
               THEN /\ event' = [NoEvent EXCEPT !.seen = TRUE, !.err = TRUE]
                    /\ thread' = [thread EXCEPT !["discovery"] = "wait"]
                    /\ UNCHANGED unreported
               ELSE /\ event' = [seen |-> TRUE, err |-> FALSE,
                                 changed |-> out.changed,
                                 payload |-> payload # {},
                                 applied |-> ~out.services.nil,
                                 services |-> out.services.items,
                                 before |-> discovered, current |-> ingress]
                    /\ thread' = [thread EXCEPT !["discovery"] =
                                     IF out.services.nil THEN "check"
                                     ELSE "update"]
                    /\ unreported' = FALSE
    /\ UNCHANGED <<otherVars, ctxErr, useDiscovery, inPass, ingress, discovered,
                   generated, passSet, passCause, tick, changes>>

\* runDiscoveryLoop: UpdateDiscoveredServices and Generate (main.go:205-209)
DiscoveryUpdate ==
    /\ thread["discovery"] = "update"
    /\ discovered' = event.services
    /\ generated' = event.services
    /\ thread' = [thread EXCEPT !["discovery"] = AfterDiscoveryUpdate]
    /\ UNCHANGED <<otherVars, ctxErr, useDiscovery, inPass, ingress, unreported,
                   event, passSet, passCause, tick, changes>>

\* runDiscoveryLoop: time.After(5 * time.Second) (main.go:197-198)
RetryWait ==
    /\ thread["discovery"] = "wait"
    /\ thread' = [thread EXCEPT !["discovery"] = "check"]
    /\ UNCHANGED <<otherVars, ctxErr, useDiscovery, inPass, ingress, unreported,
                   discovered, generated, event, passSet, passCause, tick,
                   changes>>

\* Manager.Watch: a write of the mappings file, m.Load() and the callback
\* that regenerates the configuration (manager.go:133-148, main.go:156-161)
FileEvent ==
    /\ thread["watcher"] = "watch"
    /\ unreported
    /\ \E loadErr \in BOOLEAN :
        /\ event' = [seen |-> TRUE, err |-> loadErr, changed |-> TRUE,
                     payload |-> FALSE, applied |-> ~loadErr,
                     services |-> ingress, before |-> discovered,
                     current |-> ingress]
        /\ discovered' = IF loadErr THEN discovered ELSE ingress
        /\ generated' = IF loadErr THEN generated ELSE ingress
    /\ unreported' = FALSE
    /\ UNCHANGED <<otherVars, ctxErr, useDiscovery, thread, inPass, ingress,
                   passSet, passCause, tick, changes>>

\* the status server takes a request for /health or /status (main.go:363-373)
StatusRequest ==
    /\ thread["status"] = "listen"
    /\ thread' = [thread EXCEPT !["status"] = "handle"]
    /\ UNCHANGED <<otherVars, ctxErr, useDiscovery, inPass, ingress, unreported,
                   discovered, generated, event, passSet, passCause, tick,
                   changes>>

\* the status server has answered the request
StatusRespond ==
    /\ thread["status"] = "handle"
    /\ thread' = [thread EXCEPT !["status"] = "listen"]
    /\ UNCHANGED <<otherVars, ctxErr, useDiscovery, inPass, ingress, unreported,
                   discovered, generated, event, passSet, passCause, tick,
                   changes>>

\* a deployment adds or removes an ingress service, or the mappings file is
\* written
ServiceChange ==
    /\ changes < MaxChanges
    /\ \E services \in SUBSET MainServices :
        /\ services # ingress
        /\ ingress' = services
    /\ unreported' = TRUE
    /\ changes' = changes + 1
    /\ UNCHANGED <<otherVars, ctxErr, useDiscovery, thread, inPass, discovered,
                   generated, event, passSet, passCause, tick>>

\* main in proxy mode, in discovery mode or with a mappings file, when it
\* has started the control loop and the status server (main.go:101-104)
InitMain ==
    /\ domain \in ClientDomains
    /\ subdomainPrefix = FALSE
    /\ baseDomain = GetBaseDomain(domain, subdomainPrefix)
    /\ ttl = 300
    /\ StoreOff
    /\ op = "none"
    /\ arg = <<>>
    /\ ret = "none"
    /\ RetryOff
    /\ proxied = TRUE
    /\ pc = "off"
    /\ passes = 0
    /\ desired = {}
    /\ ipv4 = ""
    /\ ipv6 = ""
    /\ todo = <<>>
    /\ issued = <<>>
    /\ faulty = FALSE
    /\ zoneAtStart = {}
    /\ published = {}
    /\ LockOff
    /\ useDiscovery \in BOOLEAN
    /\ thread = [th \in Threads |->
                    IF th = "control" THEN "load"
                    ELSE IF th = "status" THEN "listen" ELSE "unstarted"]
    /\ inPass = {}
    /\ ingress \in SUBSET MainServices
    /\ unreported = FALSE
    /\ discovered = {}
    /\ generated = {}
    /\ event = NoEvent
    /\ passSet = {}
    /\ passCause = "none"
    /\ tick = FALSE
    /\ changes = 0

\* the steps of the control loop, with the passes it runs
ControlStep ==
    \/ LoadInitial
    \/ GenerateInitial
    \/ Spawn
    \/ SelectTick
    \/ \E th \in Threads :
        \/ PassBegin(th)
        \/ PassDetect(th)
        \/ PassSubdomains(th)
        \/ PassReturn(th)

\* the steps of the discovery loop and of the file watcher
DiscoveryStep == DiscoveryCheck \/ PollReturns \/ DiscoveryUpdate \/ RetryWait

NextMain ==
    \/ ControlStep
    \/ DiscoveryStep
    \/ FileEvent
    \/ Tick
    \/ \E th \in Threads : ContextDone(th)
    \/ Shutdown
    \/ StatusRequest
    \/ StatusRespond
    \/ ServiceChange

SpecMain == InitMain /\ [][NextMain]_vars

\* every goroutine that can take a step takes one, and the ticker fires
FairSpecMain ==
    /\ SpecMain
    /\ WF_vars(ControlStep)
    /\ WF_vars(DiscoveryStep)
    /\ WF_vars(FileEvent)
    /\ WF_vars(Tick)
    /\ WF_vars(\E th \in Threads : ContextDone(th))

(***************************************************************************)
(* Properties of the validator and the name mapper (SpecNames).            *)
(***************************************************************************)
\* n ends with "." followed by d
DotSuffixOf(n, d) ==
    \E k \in 1..Len(n) : n[k] = "." /\ SubSeq(n, k + 1, Len(n)) = d

\* lower-cased, one trailing dot stripped
Canon(s) == ToLower(TrimSuffix(s, Dot))

\* every string that differs from s only in letter case
RECURSIVE Recasings(_)
Recasings(s) ==
    IF s = <<>>
    THEN {<<>>}
    ELSE {<<c>> \o r : c \in {x \in NameAlphabet : LowerChar(x) = LowerChar(Head(s))},
                       r \in Recasings(Tail(s))}

\* the answer of the predicate the state's call was made to, for another name
SamePredicate(name) ==
    IF op = "validate"
    THEN validateRecordName(domain, baseDomain, name)
    ELSE IsManagedRecord(domain, baseDomain, name)

\* a name equals rootDomain or ends with "."+rootDomain, or, in prefix mode,
\* equals baseDomain or ends with "."+baseDomain
C1_InScope(n) ==
    \/ Canon(n) = Canon(domain)
    \/ DotSuffixOf(Canon(n), Canon(domain))
    \/ /\ subdomainPrefix
       /\ (Canon(n) = Canon(baseDomain) \/ DotSuffixOf(Canon(n), Canon(baseDomain)))

\* C1: a call of UpdateRecord or DeleteRecord whose name validateRecordName
\* denies makes no provider call (no list, create, update or delete), returns
\* the scope-denied error and leaves the ID cache, and the zone, as they were;
\* and at all times every name the client passes to a create, update or
\* delete call, and the name of every record it created, updated or deleted,
\* is in scope.
C1_ScopeGate ==
    /\ [][(/\ op = "none"
           /\ op' \in {"UpdateRecord", "DeleteRecord"}
           /\ validateRecordName(domain, baseDomain, arg'.name) # "nil")
          => /\ ret' = "SECURITY"
             /\ calls' = <<>>
             /\ recordCache' = recordCache
             /\ zone' = zone
             /\ nextID' = nextID]_vars
    /\ [](\A i \in 1..Len(calls) :
            /\ calls[i].call # "list" => C1_InScope(calls[i].name)
            /\ calls[i].hit => C1_InScope(calls[i].target))

\* a denied call on a name the zone holds a record for, made when the cache
\* has entries
C1_Witness ==
    /\ op \in {"UpdateRecord", "DeleteRecord"}
    /\ ret = "SECURITY"
    /\ calls = <<>>
    /\ recordCache # <<>>
    /\ \E r \in zone : r.name = ProviderName(arg.name)

\* C2: validateRecordName allows a name exactly when the lower-cased name
\* without its trailing dot equals rootDomain or ends with "."+rootDomain, or,
\* only when baseDomain is set and differs from rootDomain, equals baseDomain
\* or ends with "."+baseDomain (the configured domains compared in the same
\* normal form); every other name is denied, a raw string suffix without a
\* label boundary included.
C2_InScope ==
    LET n == Canon(arg)
        root == Canon(domain)
        base == Canon(baseDomain)
    IN  \/ n = root
        \/ DotSuffixOf(n, root)
        \/ /\ base # <<>>
           /\ base # root
           /\ (n = base \/ DotSuffixOf(n, base))

C2_ValidateAllowsExactlyInScope ==
    op = "validate" =>
        /\ ret \in {"nil", "SECURITY"}
        /\ (ret = "nil") <=> C2_InScope

\* a name that ends with the letters of the domain, not at a label boundary,
\* was denied (fakehome.example.com for home.example.com)
C2_Witness ==
    /\ op = "validate"
    /\ ret = "SECURITY"
    /\ Canon(domain) # <<>>
    /\ HasSuffix(Canon(arg), Canon(domain))
    /\ Len(Canon(arg)) > Len(Canon(domain))

\* C3: the empty string is denied by validateRecordName for every zone
\* configuration of the client.
C3_EmptyNameDenied ==
    (op = "validate" /\ arg = <<>>) => ret = "SECURITY"

\* C4 as stated: validateRecordName and IsManagedRecord give the same answer
\* for a name, for every re-casing of it and for the name with a trailing dot
\* appended, for every name.
C4_CaseAndDotInsensitive ==
    op \in {"validate", "managed"} =>
        /\ \A r \in Recasings(arg) : SamePredicate(r) = ret
        /\ SamePredicate(arg \o Dot) = ret

\* C4 amended: the same answer for every re-casing of the name, and for the
\* name with a trailing dot appended when the name does not already end with
\* a dot.
C4_CaseAndOneDotInsensitive ==
    op \in {"validate", "managed"} =>
        /\ \A r \in Recasings(arg) : SamePredicate(r) = ret
        /\ ~HasSuffix(arg, Dot) => SamePredicate(arg \o Dot) = ret

\* an upper-case name without a trailing dot was found managed
C4_Witness ==
    /\ op = "managed"
    /\ ret = TRUE
    /\ arg # ToLower(arg)
    /\ ~HasSuffix(arg, Dot)

\* C5: GetSubdomainFQDN returns service+"."+rootDomain in direct mode; in
\* prefix mode service+"-"+zoneLabel+"."+parentDomain for rootDomain split at
\* its first dot, and service+"-"+rootDomain when rootDomain has no dot.
C5_SubdomainFQDN ==
    op = "fqdn" =>
        IF ~subdomainPrefix
        THEN ret = arg \o Dot \o domain
        ELSE /\ \A k \in 1..Len(domain) :
                    (domain[k] = "." /\ \A j \in 1..(k - 1) : domain[j] # ".") =>
                        LET zoneLabel == SubSeq(domain, 1, k - 1)
                            parentDomain == SubSeq(domain, k + 1, Len(domain))
                        IN  ret = arg \o Dash \o zoneLabel \o Dot \o parentDomain
             /\ (\A k \in 1..Len(domain) : domain[k] # ".") =>
                    ret = arg \o Dash \o domain

\* prefix mode, a root domain of two non-empty labels, a non-empty service
C5_Witness ==
    /\ op = "fqdn"
    /\ subdomainPrefix
    /\ arg # <<>>
    /\ Len(SplitN2(domain)) = 2
    /\ SplitN2(domain)[1] # <<>>
    /\ SplitN2(domain)[2] # <<>>
    /\ ~ContainsChar(SplitN2(domain)[2], ".")

\* C6: for every configuration and every service name, the FQDN produced by
\* GetSubdomainFQDN passes validateRecordName of the client built from the
\* same configuration.
C6_MappedNamePassesValidator ==
    op = "fqdn" => validateRecordName(domain, baseDomain, ret) = "nil"

(***************************************************************************)
(* Properties of the retry combinator (SpecRetry, FairSpecRetry).          *)
(***************************************************************************)
\* k timeouts
Timeouts(k) == [i \in 1..k |-> "timeout"]

\* C7: when fn fails with a timeout k times, k <= maxRetries, and then
\* succeeds, withRetry returns the value of that invocation with a nil error
\* after exactly k+1 invocations of fn; and after fewer than maxRetries+1
\* timeouts withRetry goes on to the next attempt: it returns without one only
\* with the error of a context that ended its sleep.
C7_RetriesTimeoutsThenSucceeds ==
    rpc = "done" =>
        /\ \A k \in 0..maxRetries :
               outcomes = Append(Timeouts(k), "ok") =>
                   /\ result = k + 1
                   /\ err = Nil
                   /\ invocations = k + 1
        /\ \A k \in 1..maxRetries :
               outcomes = Timeouts(k) =>
                   /\ IsContextError(err)
                   /\ err.from = 0

\* timeout twice, then success, with maxRetries = 2: three invocations
C7_Witness ==
    /\ rpc = "done"
    /\ maxRetries = 2
    /\ outcomes = <<"timeout", "timeout", "ok">>
    /\ invocations = 3
    /\ err = Nil

\* C8: when fn returns an error that is no timeout, withRetry invokes fn
\* exactly once, never calls the backoff sleep and returns that error,
\* whatever maxRetries is.
C8_PermanentErrorFailsAtOnce ==
    (outcomes # <<>> /\ outcomes[1] \notin {"ok", "timeout"}) =>
        /\ rpc = "done"
        /\ invocations = 1
        /\ outcomes = <<outcomes[1]>>
        /\ sleeps = 0
        /\ result = 0
        /\ err = [kind |-> outcomes[1], from |-> 1]

\* a permanent error with three retries allowed
C8_Witness ==
    /\ rpc = "done"
    /\ maxRetries = 3
    /\ outcomes = <<"permanent">>
    /\ sleeps = 0

\* C9: withRetry terminates, and it never invokes fn more than maxRetries+1
\* times nor sleeps more than maxRetries times.
C9_BoundedRetries ==
    /\ <>(rpc = "done")
    /\ [](/\ invocations <= maxRetries + 1
          /\ sleeps <= maxRetries
          /\ attempt <= maxRetries)

\* every allowed attempt was used
C9_Witness ==
    /\ rpc = "done"
    /\ maxRetries >= 2
    /\ invocations = maxRetries + 1
    /\ sleeps = maxRetries

\* C10 as stated: with a context that is already cancelled when withRetry is
\* called, fn is invoked at most once and withRetry returns the cancellation
\* error.
C10_CancelledReturnsCancellation ==
    (ctxAtCall # "nil" /\ rpc = "done") =>
        /\ invocations <= 1
        /\ err.kind = ctxAtCall

\* C10 amended: with a context that is already cancelled, fn is invoked
\* exactly once; withRetry returns the context's error when that invocation
\* fails with a timeout and a retry is allowed (maxRetries >= 1), and
\* otherwise returns what fn returned, its value or its error unchanged.
C10_CancelledInvokesOnce ==
    ctxAtCall # "nil" =>
        /\ invocations <= 1
        /\ rpc = "done" =>
               /\ invocations = 1
               /\ IF outcomes[1] = "timeout" /\ maxRetries >= 1
                  THEN result = 0 /\ err = [kind |-> ctxAtCall, from |-> 0]
                  ELSE IF outcomes[1] = "ok"
                       THEN result = 1 /\ err = Nil
                       ELSE result = 0 /\ err = [kind |-> outcomes[1], from |-> 1]

\* a cancelled context, one timeout, one retry allowed: the cancellation is
\* returned after one invocation
C10_Witness ==
    /\ ctxAtCall = "canceled"
    /\ rpc = "done"
    /\ maxRetries = 1
    /\ outcomes = <<"timeout">>
    /\ err = [kind |-> "canceled", from |-> 0]

\* C11: isRetryableError is true for an error exactly when the error is a
\* transport timeout (a net.Error whose Timeout() is true) that is not and
\* does not wrap a context error; it is false for nil, for an API error, for a
\* net.Error without timeout, and for context.Canceled and
\* context.DeadlineExceeded, the latter reporting Timeout() true.
C11_RetryableOnlyTransportTimeout ==
    /\ ~isRetryableError(Nil)
    /\ \A i \in 1..Len(outcomes) :
          outcomes[i] # "ok" =>
              LET e == [kind |-> outcomes[i], from |-> i]
              IN  /\ isRetryableError(e) <=> outcomes[i] = "timeout"
                  /\ IsContextError(e) => ~isRetryableError(e)
                  /\ isRetryableError(e) => AsNetError(e) /\ Timeout(e)

\* fn failed with a transport timeout, was invoked again and failed with
\* context.DeadlineExceeded, which reports Timeout() true and was not retried
C11_Witness ==
    /\ rpc = "done"
    /\ maxRetries >= 2
    /\ outcomes = <<"timeout", "deadline">>
    /\ err.kind = "deadline"
    /\ Timeout(err)

\* cfRetryConfig.maxRetries
cfMaxRetries == 1

\* C12: every provider call of UpdateRecord and DeleteRecord goes through
\* withRetry: a provider call that fails with a transport timeout is followed
\* by another attempt of the same call within the same operation, unless it
\* was already the last of cfMaxRetries+1 attempts that all timed out.
C12_TimeoutIsRetried ==
    \A i \in 1..Len(calls) :
        calls[i].err = "timeout" =>
            \/ /\ i < Len(calls)
               /\ calls[i + 1].call = calls[i].call
            \/ /\ i > cfMaxRetries
               /\ \A j \in (i - cfMaxRetries)..i :
                     /\ calls[j].call = calls[i].call
                     /\ calls[j].err = "timeout"

\* C13: an allowed UpdateRecord(fqdn, type, content) with a cached ID makes
\* one provider call, the update of that ID. Without a cached ID it lists the
\* records matching (fqdn, type) first; when the list fails nothing else
\* happens; when a record is found it caches that record's ID, updates that
\* record and creates nothing; when none is found it issues exactly one
\* create and, when the create succeeds, caches the ID of the new record.
C13_UpdateRecordUpserts ==
    [][(op = "none" /\ op' = "UpdateRecord" /\ ret' # "SECURITY") =>
        LET key == cacheKey(arg'.name, arg'.type)
            matching == {r \in zone : /\ Canon(r.name) = Canon(arg'.name)
                                      /\ r.type = arg'.type}
            creates == {i \in 1..Len(calls') : calls'[i].call = "create"}
        IN  IF key \in DOMAIN recordCache
            THEN /\ Len(calls') = 1
                 /\ calls'[1].call = "update"
                 /\ calls'[1].id = recordCache[key]
                 /\ recordCache' = recordCache
                 /\ nextID' = nextID
            ELSE /\ Len(calls') >= 1
                 /\ calls'[1].call = "list"
                 /\ IF calls'[1].err # "nil"
                    THEN /\ Len(calls') = 1
                         /\ recordCache' = recordCache
                         /\ zone' = zone
                    ELSE /\ Len(calls') = 2
                         /\ IF matching # {}
                            THEN /\ calls'[2].call = "update"
                                 /\ calls'[2].id \in {r.id : r \in matching}
                                 /\ key \in DOMAIN recordCache'
                                 /\ recordCache'[key] = calls'[2].id
                                 /\ creates = {}
                                 /\ nextID' = nextID
                                 /\ {r.id : r \in zone'} = {r.id : r \in zone}
                            ELSE /\ calls'[2].call = "create"
                                 /\ creates = {2}
                                 /\ calls'[2].err = "nil" =>
                                       /\ key \in DOMAIN recordCache'
                                       /\ recordCache'[key] = nextID
                                       /\ zone' = zone \cup
                                            {[id |-> nextID,
                                              name |-> Canon(arg'.name),
                                              type |-> arg'.type,
                                              content |-> arg'.content]}
                                 /\ calls'[2].err # "nil" =>
                                       /\ recordCache' = recordCache
                                       /\ zone' = zone]_vars

\* UpdateRecord found no record of its type under a name that has a record of
\* the other type, created one and cached its ID
C13_Witness ==
    /\ op = "UpdateRecord"
    /\ ret = "nil"
    /\ Len(calls) = 2
    /\ calls[2].call = "create"
    /\ cacheKey(arg.name, arg.type) \in DOMAIN recordCache
    /\ recordCache[cacheKey(arg.name, arg.type)] = calls[2].id
    /\ \E r \in zone : r.name = Canon(arg.name) /\ r.type # arg.type

\* C14: DeleteRecord of a (fqdn, type) that has no record at the provider
\* returns success, whatever the ID cache holds, when the transport does not
\* fail and the provider reports no error other than that the record is not
\* there.
C14_DeleteAbsentSucceeds ==
    (/\ op = "DeleteRecord"
     /\ ret # "SECURITY"
     /\ {r \in zone : Canon(r.name) = Canon(arg.name) /\ r.type = arg.type} = {}
     /\ \A i \in 1..Len(calls) : calls[i].err \in {"nil", "notfound"})
    => ret = "nil"

\* the label of d before its first dot, all of d when it has none
FirstLabel(d) ==
    LET m == CHOOSE j \in 0..Len(d) :
                 /\ \A k \in 1..j : d[k] # "."
                 /\ j < Len(d) => d[j + 1] = "."
    IN  SubSeq(d, 1, m)

\* C15: IsManagedRecord(fqdn) is true exactly when fqdn, lower-cased and
\* without its trailing dot, is neither rootDomain nor baseDomain and either
\* ends with "."+rootDomain or, when baseDomain differs from rootDomain, ends
\* with "-"+zoneLabel+"."+baseDomain after a non-empty part without a dot.
C15_ManagedAsStated ==
    op = "managed" =>
        LET n == Canon(arg)
            root == Canon(domain)
            base == Canon(baseDomain)
            suffix == Dash \o FirstLabel(root) \o Dot \o base
        IN  ret <=>
              /\ n # root
              /\ n # base
              /\ \/ DotSuffixOf(n, root)
                 \/ /\ base # root
                    /\ \E k \in 1..(Len(n) - 1) :
                          /\ SubSeq(n, k + 1, Len(n)) = suffix
                          /\ \A j \in 1..k : n[j] # "."

\* C15, amended: as C15, the prefix form counting only when baseDomain is not
\* empty and differs from rootDomain.
C15_ManagedExactly ==
    op = "managed" =>
        LET n == Canon(arg)
            root == Canon(domain)
            base == Canon(baseDomain)
            suffix == Dash \o FirstLabel(root) \o Dot \o base
        IN  ret <=>
              /\ n # root
              /\ n # base
              /\ \/ DotSuffixOf(n, root)
                 \/ /\ base # <<>>
                    /\ base # root
                    /\ \E k \in 1..(Len(n) - 1) :
                          /\ SubSeq(n, k + 1, Len(n)) = suffix
                          /\ \A j \in 1..k : n[j] # "."

\* in prefix mode for the zone a.a, a name with a nested label before the
\* suffix "-a.a" is found not managed
C15_Witness ==
    /\ op = "managed"
    /\ subdomainPrefix
    /\ Canon(domain) = <<"a", ".", "a">>
    /\ arg = <<"a", ".", "a", "-", "a", ".", "a">>
    /\ ret = FALSE

\* C16: every name GetManagedRecordFQDNs returns is the lower-cased name of
\* an A or AAAA record the provider holds now, whatever the ID cache holds; it
\* is no wildcard name, is neither rootDomain nor baseDomain, and satisfies
\* IsManagedRecord; a listing that fails returns no name.
C16_ListingOnlyLiveManaged ==
    op = "GetManagedRecordFQDNs" =>
        /\ ret # "nil" => listed = {}
        /\ \A n \in listed :
              /\ \E r \in zone : r.type \in {"A", "AAAA"} /\ Canon(r.name) = n
              /\ n[1] # "*"
              /\ n # Canon(domain)
              /\ n # Canon(baseDomain)
              /\ IsManagedRecord(domain, baseDomain, n)

\* a listing that returned a name while the zone holds a wildcard and an apex
\* record and the cache holds the ID of a record that is gone
C16_Witness ==
    /\ op = "GetManagedRecordFQDNs"
    /\ ret = "nil"
    /\ listed # {}
    /\ \E r \in zone : r.name = NameWildcard
    /\ \E r \in zone : r.name = NameApex
    /\ \E k \in DOMAIN recordCache : \A r \in zone : r.id # recordCache[k]

(***************************************************************************)
(* Properties of a reconciliation pass (SpecPass).                         *)
(***************************************************************************)
\* the mapped name of a service, as the provider holds it
MappedFQDN(service) == Canon(GetSubdomainFQDN(domain, subdomainPrefix, service))

\* the records of the zone with a name and a type
RecordsAt(z, name, recordType) ==
    {r \in z : r.name = name /\ r.type = recordType}

\* C17: a first pass on an empty zone, all of whose provider calls succeeded,
\* leaves for every desired service exactly one A record with the IPv4
\* address at the service's mapped name when an IPv4 address was detected and
\* none when not, and the same for AAAA and the IPv6 address.
C17_PassPublishesDesired ==
    (pc = "done" /\ passes = 1 /\ zoneAtStart = {} /\ ~faulty) =>
        \A service \in desired :
            /\ IF ipv4 # ""
               THEN \E r \in zone :
                        /\ r.content = ipv4
                        /\ RecordsAt(zone, MappedFQDN(service), "A") = {r}
               ELSE RecordsAt(zone, MappedFQDN(service), "A") = {}
            /\ IF ipv6 # ""
               THEN \E r \in zone :
                        /\ r.content = ipv6
                        /\ RecordsAt(zone, MappedFQDN(service), "AAAA") = {r}
               ELSE RecordsAt(zone, MappedFQDN(service), "AAAA") = {}

\* C18: at the end of a pass whose provider calls succeeded, no record is left
\* at the mapped name of a service that an earlier pass published and that is
\* no longer desired, and every other record the zone held when the pass
\* started is still there, with its content unless it is the record of a
\* desired service or, without proxy, of the domain or its wildcard, which
\* the pass sets to the detected address.
C18_RemovedServiceDeletedOnly ==
    (pc = "done" /\ ~faulty) =>
        LET desiredNames == {MappedFQDN(d) : d \in desired}
            removedNames == {MappedFQDN(p) : p \in published} \ desiredNames
        IN  /\ \A r \in zone : r.name \notin removedNames
            /\ \A r \in zoneAtStart :
                  r.name \notin removedNames =>
                      \E q \in zone :
                          /\ q.id = r.id
                          /\ q.name = r.name
                          /\ q.type = r.type
                          /\ \/ q.content = r.content
                             \/ r.name \in desiredNames
                             \/ /\ ~proxied
                                /\ r.name \in {Canon(domain),
                                               <<"*", ".">> \o Canon(domain)}

\* C19: at the end of a pass whose listing succeeded, DeleteRecord was issued
\* for type A and for type AAAA for every listed name that is not the mapped
\* name of a desired service.
C19_StaleListedIsDeleted ==
    (pc = "done" /\ \E i \in 1..Len(issued) :
                        /\ issued[i].op = "GetManagedSubdomainRecords"
                        /\ issued[i].err = "nil") =>
        \A f \in listed :
            f \notin {MappedFQDN(d) : d \in desired} =>
                \A t \in {"A", "AAAA"} :
                    \E i \in 1..Len(issued) :
                        /\ issued[i].op = "DeleteRecord"
                        /\ Canon(issued[i].name) = f
                        /\ issued[i].type = t

\* C20: a pass never issues DeleteRecord for the mapped name of a service
\* that is desired in that pass, whatever the letter case of the service name.
C20_DesiredNeverDeleted ==
    \A i \in 1..Len(issued) :
        issued[i].op = "DeleteRecord" =>
            \A d \in desired : Canon(issued[i].name) # MappedFQDN(d)

\* whether the pass has issued a client call for a name and a record type
Issued(o, name, recordType) ==
    \E i \in 1..Len(issued) :
        /\ issued[i].op = o
        /\ issued[i].name = name
        /\ issued[i].type = recordType

\* C21: at the end of a pass, whatever calls failed, UpdateRecord was issued
\* for every record the pass publishes (with proxy the A record of every
\* desired service, without proxy the records of the domain and of its
\* wildcard), with proxy the managed records were listed, and after a
\* listing that succeeded DeleteRecord was issued for type A and for type
\* AAAA for every listed subdomain the pass takes as stale.
C21_FailureDoesNotStopOthers ==
    pc = "done" =>
        /\ (proxied /\ ipv4 # "") =>
               \A d \in desired :
                   Issued("UpdateRecord",
                          GetSubdomainFQDN(domain, subdomainPrefix, d), "A")
        /\ ~proxied =>
               \A n \in {domain, <<"*", ".">> \o domain} :
                   /\ ipv4 # "" => Issued("UpdateRecord", n, "A")
                   /\ ipv6 # "" => Issued("UpdateRecord", n, "AAAA")
        /\ proxied => \E i \in 1..Len(issued) :
                          issued[i].op = "GetManagedSubdomainRecords"
        /\ \A i \in 1..Len(issued) :
               (issued[i].op = "GetManagedSubdomainRecords"
                   /\ issued[i].err = "nil") =>
                   \A f \in listed :
                       LET name == SubdomainOf(f) \o Dot \o domain
                       IN  (SubdomainOf(f) # <<>>
                               /\ name \notin activeFQDNs(desired)) =>
                               /\ Issued("DeleteRecord", name, "A")
                               /\ Issued("DeleteRecord", name, "AAAA")

\* a pass is over in which an UpdateRecord failed and another UpdateRecord
\* followed, and a DeleteRecord failed and another DeleteRecord followed
C21_Witness ==
    /\ pc = "done"
    /\ \E i, j, k, l \in 1..Len(issued) :
        /\ i < j /\ j < k /\ k < l
        /\ issued[i].op = "UpdateRecord" /\ issued[i].err # "nil"
        /\ issued[j].op = "UpdateRecord"
        /\ issued[k].op = "DeleteRecord" /\ issued[k].err # "nil"
        /\ issued[l].op = "DeleteRecord"
    /\ C21_FailureDoesNotStopOthers

\* C22: in the calls of a pass, in the order they were issued, no
\* UpdateRecord comes after the managed-record listing or after a
\* DeleteRecord.
C22_UpdatesBeforeListingAndDeletes ==
    \A i, j \in 1..Len(issued) :
        (i < j /\ issued[j].op = "UpdateRecord") =>
            issued[i].op = "UpdateRecord"

\* a pass is over that issued an update, then the listing, then a delete
C22_Witness ==
    /\ pc = "done"
    /\ \E i, j, k \in 1..Len(issued) :
        /\ i < j /\ j < k
        /\ issued[i].op = "UpdateRecord"
        /\ issued[j].op = "GetManagedSubdomainRecords"
        /\ issued[k].op = "DeleteRecord"

(***************************************************************************)
(* Properties of the passes on a zone that others change (SpecPassShared). *)
(***************************************************************************)
\* C23: whatever the zone and the ID cache were when a pass started, at the
\* end of a pass none of whose provider calls failed in the transport or was
\* refused for the provider's own reasons, every desired service has a
\* record at its mapped name with the detected address (stated for the
\* records a pass writes for services: type A, with proxy, and for service
\* names in lower case).
C23_PassSelfCorrects ==
    (/\ pc = "done"
     /\ proxied
     /\ ipv4 # ""
     /\ \A i \in 1..Len(issued) : ~issued[i].fault
     /\ \A d \in desired : d = ToLower(d)) =>
        \A d \in desired :
            \E r \in zone :
                /\ r.name = MappedFQDN(d)
                /\ r.type = "A"
                /\ r.content = ipv4

(***************************************************************************)
(* Properties of the passes of a run that can be cancelled                 *)
(* (SpecPassCancel).                                                       *)
(***************************************************************************)
\* C24: once the context of a pass is cancelled the pass starts no further
\* client call: every UpdateRecord, listing and DeleteRecord the pass has
\* issued was issued while ctx.Err() was nil.
C24_CancelStopsPass ==
    \A i \in 1..Len(issued) : issued[i].ctx = "nil"

(***************************************************************************)
(* Further properties of withRetry (SpecRetry).                            *)
(***************************************************************************)
\* C25: when the context is done while withRetry sleeps between two
\* attempts, the next step of withRetry is its return, with the context's
\* error and not the error of the failed attempt, and without a further
\* invocation of fn; after withRetry has returned fn is not invoked again.
C25_CancelDuringSleepReturns ==
    [][/\ (rpc = "sleep" /\ ctxErr # "nil") =>
              /\ rpc' = "done"
              /\ result' = 0
              /\ err' = [kind |-> ctxErr, from |-> 0]
              /\ invocations' = invocations
       /\ rpc = "done" => invocations' = invocations]_vars

\* a context that was live at the call and expired during the second sleep:
\* the deadline error is returned after two invocations that timed out
C25_Witness ==
    /\ rpc = "done"
    /\ ctxAtCall = "nil"
    /\ ctxErr = "deadline"
    /\ outcomes = <<"timeout", "timeout">>
    /\ invocations = 2
    /\ sleeps = 2
    /\ err = [kind |-> "deadline", from |-> 0]

\* C26: when withRetry has given up, its last invocation of fn having
\* failed with an error that is not a transport timeout or in the last
\* allowed attempt, it returns the zero value and the very error that this
\* last invocation returned.
C26_GivesUpWithLastError ==
    (/\ rpc = "done"
     /\ invocations >= 1
     /\ outcomes[invocations] # "ok"
     /\ outcomes[invocations] # "timeout" \/ attempt = maxRetries) =>
        /\ Len(outcomes) = invocations
        /\ result = 0
        /\ err = [kind |-> outcomes[invocations], from |-> invocations]

\* withRetry gave up at its third invocation: after two timeouts an API
\* error, which it returned
C26_Witness ==
    /\ rpc = "done"
    /\ outcomes = <<"timeout", "timeout", "permanent">>
    /\ err = [kind |-> "permanent", from |-> 3]

(***************************************************************************)
(* Properties of the backoff (SpecDelay).                                  *)
(***************************************************************************)
\* min(minDelay * 2^n, maxDelay) in milliseconds, for delays of whole
\* milliseconds with minDelay < 2^10 and maxDelay < 2^20: beyond n = 20 the
\* product of a positive minDelay is above every such maxDelay
CappedBackoff(n, minDelay, maxDelay) ==
    IF minDelay = 0
    THEN 0
    ELSE IF n > 20
         THEN maxDelay
         ELSE IF minDelay * 2^n > maxDelay THEN maxDelay ELSE minDelay * 2^n

\* C27: for every attempt >= 0 the delay retryDelay returns is
\* min(minDelay * 2^attempt, maxDelay): it is not negative, not above
\* maxDelay, and not below the delay of the attempt before, also when
\* minDelay * 2^attempt does not fit in 64 bits.
C27_DelayIsCappedBackoff ==
    op = "retryDelay" =>
        LET minDelay == Milliseconds(arg.minDelay)
            maxDelay == Milliseconds(arg.maxDelay)
        IN  /\ ret = Milliseconds(CappedBackoff(arg.attempt, arg.minDelay,
                                                arg.maxDelay))
            /\ ~Negative(ret)
            /\ ~Greater(ret, maxDelay)
            /\ arg.attempt >= 1 =>
                   ~Greater(retryDelay(arg.attempt - 1, minDelay, maxDelay),
                            ret)

(***************************************************************************)
(* Properties of the creates and updates of a client (SpecWrite).          *)
(***************************************************************************)
\* C28: every create and every update an UpdateRecord sends to the provider
\* carries TTL 1 when the client is proxied and the configured TTL when it
\* is not, and the proxied flag of the client; the two never change, so a
\* create and an update of one client carry the same TTL and flag.
C28_WritesCarryTTLAndProxied ==
    \A i \in 1..Len(calls) :
        calls[i].call \in {"create", "update"} =>
            /\ calls[i].ttl = (IF proxied THEN 1 ELSE ttl)
            /\ calls[i].proxied = proxied

\* a proxied client whose configured TTL is not 1 has updated a record it
\* had created, both with TTL 1
C28_Witness ==
    /\ op = "UpdateRecord"
    /\ proxied
    /\ ttl = 300
    /\ Len(calls) = 1
    /\ calls[1].call = "update"
    /\ calls[1].err = "nil"
    /\ calls[1].ttl = 1
    /\ \E r \in zone : r.id = calls[1].id /\ r.id > Cardinality(InitialRecords)

(***************************************************************************)
(* Further properties of the record store client (Spec) and of a pass      *)
(* (SpecPass).                                                             *)
(***************************************************************************)
\* C29: a DeleteRecord(name, type) that returns nil leaves the cache
\* without an entry for name:type and with every other entry as it was; a
\* DeleteRecord that returns an error leaves the cache as it was.
C29_DeleteCacheFrame ==
    [][(op = "none" /\ op' = "DeleteRecord") =>
          LET key == cacheKey(arg'.name, arg'.type)
          IN  IF ret' = "nil"
              THEN /\ key \notin DOMAIN recordCache'
                   /\ DOMAIN recordCache' = DOMAIN recordCache \ {key}
                   /\ \A k \in DOMAIN recordCache' :
                          recordCache'[k] = recordCache[k]
              ELSE recordCache' = recordCache]_vars

\* a DeleteRecord of a name whose ID was cached has deleted the record at
\* the provider, and the cache still holds the entry of another name
C29_Witness ==
    /\ op = "DeleteRecord"
    /\ ret = "nil"
    /\ Len(calls) = 1
    /\ calls[1].call = "delete"
    /\ cacheKey(arg.name, arg.type) \notin DOMAIN recordCache
    /\ recordCache # <<>>

\* C30: without proxy a pass issues UpdateRecord for the domain and for
\* "*." + domain, type A exactly when an IPv4 address was detected and type
\* AAAA exactly when an IPv6 address was, for no other name, also in prefix
\* mode, and each of these calls that succeeded left the record with the
\* detected address; with proxy a pass issues no UpdateRecord for the domain
\* or its wildcard.
C30_ApexApartFromServices ==
    LET apex == {domain, <<"*", ".">> \o domain}
    IN  /\ (pc = "done" /\ ~proxied) =>
               /\ \A n \in apex :
                      /\ ipv4 # "" <=> Issued("UpdateRecord", n, "A")
                      /\ ipv6 # "" <=> Issued("UpdateRecord", n, "AAAA")
               /\ \A i \in 1..Len(issued) :
                      /\ issued[i].op = "UpdateRecord"
                      /\ issued[i].name \in apex
                      /\ issued[i].err = "nil" =>
                             \E r \in zone :
                                 /\ r.name = Canon(issued[i].name)
                                 /\ r.type = issued[i].type
                                 /\ r.content = IF r.type = "A" THEN ipv4
                                                 ELSE ipv6
        /\ proxied =>
               \A i \in 1..Len(issued) :
                   issued[i].op = "UpdateRecord" =>
                       Canon(issued[i].name) \notin {Canon(n) : n \in apex}

\* a pass without proxy, in prefix mode, with both addresses detected, has
\* made its four updates without an error
C30_Witness ==
    /\ pc = "done"
    /\ ~proxied
    /\ subdomainPrefix
    /\ ipv4 # ""
    /\ ipv6 # ""
    /\ Len(issued) = 4
    /\ ~faulty
    /\ \E r \in zone : r.name = <<"*", ".">> \o Canon(domain) /\ r.type = "AAAA"

\* whether the i-th call of the pass is a managed-record listing that failed
ListingFailed(i) ==
    /\ issued[i].op = "GetManagedSubdomainRecords"
    /\ issued[i].err # "nil" \/ issued[i].fault

\* C31: a managed-record listing that failed is the last call of its pass:
\* the pass is over, with no DeleteRecord issued and none laid out; every
\* pass with proxy that is over has made the listing; and the pass started
\* after a pass whose listing failed starts as any pass does, with an empty
\* record of calls, no failure noted and its update calls laid out.
C31_ListingFailureEndsPass ==
    /\ [](/\ \A i \in 1..Len(issued) :
                ListingFailed(i) =>
                    /\ i = Len(issued)
                    /\ pc = "done"
                    /\ todo = <<>>
                    /\ \A j \in 1..Len(issued) : issued[j].op # "DeleteRecord"
          /\ (pc = "done" /\ proxied) =>
                \E i \in 1..Len(issued) :
                    issued[i].op = "GetManagedSubdomainRecords")
    /\ [][(/\ Len(issued) > 0
           /\ ListingFailed(Len(issued))
           /\ passes' = passes + 1) =>
              /\ issued' = <<>>
              /\ ~faulty'
              /\ todo' = SubdomainUpdates(SeqOfSet(desired'), ipv4')
              /\ pc' = IF todo' # <<>> THEN "update" ELSE "list"]_vars

\* the second pass found no service desired, a record of a service the first
\* pass published still in the zone, and its listing failed: the pass is
\* over and the record is still there
C31_Witness ==
    /\ pc = "done"
    /\ passes = 2
    /\ desired = {}
    /\ Len(issued) = 1
    /\ ListingFailed(1)
    /\ \E service \in published :
           RecordsAt(zone, MappedFQDN(service), "A") # {}

(***************************************************************************)
(* Further properties of the name predicates (SpecNames).                  *)
(***************************************************************************)
\* C36: for every configuration and every name, a name IsManagedRecord
\* finds managed passes validateRecordName of the same client.
C36_ManagedPassesValidator ==
    (op = "managed" /\ ret) =>
        validateRecordName(domain, baseDomain, arg) = "nil"

\* in prefix mode for the zone a.a the name A-a.A, which is no subdomain of
\* a.a, is managed and passes the validator through the base domain
C36_Witness ==
    /\ op = "managed"
    /\ ret
    /\ subdomainPrefix
    /\ domain = <<"a", ".", "a">>
    /\ arg = <<"A", "-", "a", ".", "A">>
    /\ validateRecordName(domain, baseDomain, arg) = "nil"

\* subdomainRegex (mapping/manager.go:18): a DNS label, letters, digits and
\* hyphens, not empty and with no hyphen at either end
IsLabel(service) ==
    /\ service # <<>>
    /\ ~ContainsChar(service, ".")
    /\ service[1] # "-"
    /\ service[Len(service)] # "-"

\* C37: for every configuration and every service name, the FQDN produced
\* that is a DNS label, the FQDN produced by GetSubdomainFQDN satisfies
\* IsManagedRecord of the client built from the same configuration.
C37_MappedNameIsManaged ==
    (op = "fqdn" /\ IsLabel(arg)) => IsManagedRecord(domain, baseDomain, ret)

(***************************************************************************)
(* Further properties of the record store client (Spec).                   *)
(***************************************************************************)
\* the record a cache key stands for: a record of the key's name, as the
\* provider stores it, and of the key's type
KeyOf(r) ==
    {cacheKey(name, r.type) : name \in {n \in ClientNames : ProviderName(n) = r.name}}

\* C38: when only this client changes the zone, one call after another,
\* every entry of the ID cache holds the ID of a record the zone has, with the
\* name and the type of the entry's key
C38_CacheEntriesAreLive ==
    \A key \in DOMAIN recordCache :
        \E r \in zone : r.id = recordCache[key] /\ key \in KeyOf(r)

\* the records of the zone with a name and a type
Holding(z, name, recordType) == {r \in z : r.name = name /\ r.type = recordType}

\* C39: from a zone with at most one record per name and type, whatever
\* UpdateRecord and DeleteRecord calls one client makes one after another,
\* each failing or not at any provider call, the zone holds at most one
\* record per name and type
C39_OneRecordPerNameAndType ==
    \A r \in zone : Cardinality(Holding(zone, r.name, r.type)) = 1

\* UpdateRecord for S.z.p succeeded in a zone that held s.z.p already: the
\* record was updated in place
C39_Witness ==
    /\ op = "UpdateRecord"
    /\ ret = "nil"
    /\ arg.name = NameServiceUpper
    /\ arg.type = "A"
    /\ arg.content = "192.0.2.1"
    /\ calls # <<>>
    /\ calls[Len(calls)].call = "update"
    /\ Holding(zone, NameService, "A") =
           {[id |-> 3, name |-> NameService, type |-> "A", content |-> "192.0.2.1"]}

(***************************************************************************)
(* Properties of the locking of the ID cache (SpecLock).                   *)
(***************************************************************************)
\* the positions at which a goroutine has a provider call in flight
CallPositions == {"list", "write", "delete"}

\* C32: every read of the ID cache is made with the read or the write lock
\* of cacheMu held, every write with the write lock held, and no goroutine
\* holds cacheMu while its list, create, update or delete call is in flight
C32_CacheUnderLockCallsOutside ==
    /\ access.kind = "read" => access.held \in {"read", "write"}
    /\ access.kind = "write" => access.held = "write"
    /\ \A g \in Goroutines :
           goroutine[g].pc \in CallPositions => HeldBy(g) = "none"

\* one goroutine waits for its list call while the other, which created a
\* record, holds the write lock to store the record's ID
C32_Witness ==
    /\ goroutine["g1"].pc = "list"
    /\ goroutine["g2"].pc = "store_created"
    /\ cacheMu.writer = "g2"
    /\ access = [by |-> "g1", kind |-> "read", held |-> "read"]

(***************************************************************************)
(* Properties of the goroutines of main (SpecMain, FairSpecMain).          *)
(***************************************************************************)
\* C33: no two reconciliation passes run at the same time, in any
\* interleaving of the control loop with the discovery loop, the file
\* watcher and the status server: at most one goroutine is inside
\* updateIPAndDNS
C33_OnePassAtATime == Cardinality(inPass) <= 1

\* a periodic pass runs while the discovery loop is about to store the
\* services of a poll answer and the status server handles a request
C33_Witness ==
    /\ inPass = {"control"}
    /\ passCause = "ticker"
    /\ thread["control"] = "pass_records"
    /\ thread["discovery"] = "update"
    /\ thread["status"] = "handle"

\* the program has handled an event that altered the desired set
DesiredSetAltered == event.applied /\ discovered # event.before

\* C34: a discovery-change event or a change of the mappings file that
\* alters the desired set triggers a reconciliation pass for the new set:
\* unless the program is shut down, a pass that the event started, not the
\* ticker, follows
C34_ChangeTriggersPass ==
    (DesiredSetAltered /\ ctxErr = "nil")
        ~> (\/ passCause = "change" /\ passSet = discovered
            \/ ctxErr # "nil")

\* C35: when the discovery loop has handled a poll answer with changed=true,
\* with or without a services payload, the generator's service list and the
\* generated configuration are those of the ingress services at the time of
\* the answer, the empty set included; after an answer with changed=false
\* the list is what it was
C35_PollChangeReachesGenerator ==
    (useDiscovery /\ thread["discovery"] = "check" /\ event.seen /\ ~event.err)
        => IF event.changed
           THEN discovered = event.current /\ generated = event.current
           ELSE discovered = event.before

====
